---- MODULE Spec2Model ----
(***************************************************************************)
(* Bridge general-arrangement drawing generator (BridgeGAD-03).            *)
(*                                                                         *)
(* The model follows src/enhanced_bridge_cad_app.py (BridgeParameters,     *)
(* BridgeDrawingGenerator, main) and the coordinate mappers of             *)
(* src/enhanced_bridge_app.py, src/fix_empty_output_issues.py and          *)
(* src/verify_dxf_generation.py.                                           *)
(*                                                                         *)
(* Numbers.  The program computes with Python floats.  The model computes  *)
(* with exact rationals <<n, d>> (d > 0, lowest terms), so that every      *)
(* equality below is an equality of the mathematical values the code's     *)
(* expressions denote; rounding error of the floats is not modelled.       *)
(***************************************************************************)
EXTENDS Integers, Sequences, FiniteSets, TLC

VARIABLES
    call,          \* the last call made: its name and its arguments
    raised,        \* the exception the last call raised, or "none"
    params,        \* the BridgeParameters object: None or Some(record)
    bridge_type,   \* BridgeDrawingGenerator.bridge_type
    figure,        \* BridgeDrawingGenerator.figure: None or Some("figure")
    ax_elevation,  \* the artists added to the elevation axes
    ax_plan,       \* the artists added to the plan axes
    dxf,           \* the DXF document built by the last save_as_dxf
    files,         \* the output files present on disk
    pc,            \* position of main()
    exit_code,     \* exit status of the process running main(): None or Some(int)
    mapped,        \* results of the coordinate mappers for the last mapper call
    args,          \* the argparse namespace of main(): None or Some(record)
    examples       \* main(): the examples the --examples loop has still to draw

vars == <<call, raised, params, bridge_type, figure, ax_elevation, ax_plan,
          dxf, files, pc, exit_code, mapped, args, examples>>

(***************************************************************************)
(* Optional values (Python None).                                          *)
(***************************************************************************)
None == <<>>
Some(x) == <<x>>
Get(o) == o[1]

(***************************************************************************)
(* Exact rational arithmetic standing for the float arithmetic.            *)
(***************************************************************************)
Abs(n) == IF n < 0 THEN -n ELSE n

RECURSIVE GCD(_, _)
GCD(a, b) == IF b = 0 THEN a ELSE GCD(b, a % b)

\* n/d in lowest terms with a positive denominator (d # 0)
R(n, d) ==
    LET g == GCD(Abs(n), Abs(d))
        s == IF d < 0 THEN -1 ELSE 1
    IN  <<(s * n) \div g, (s * d) \div g>>

I(n) == <<n, 1>>
\* sums and products reduce by common factors before they multiply, so that the
\* intermediate integers stay small
RAdd(a, b) ==
    LET g == GCD(a[2], b[2])
    IN  R(a[1] * (b[2] \div g) + b[1] * (a[2] \div g), (a[2] \div g) * b[2])
RSub(a, b) ==
    LET g == GCD(a[2], b[2])
    IN  R(a[1] * (b[2] \div g) - b[1] * (a[2] \div g), (a[2] \div g) * b[2])
RMul(a, b) ==
    IF a[1] = 0 \/ b[1] = 0 THEN <<0, 1>>
    ELSE LET g1 == GCD(Abs(a[1]), b[2])
             g2 == GCD(Abs(b[1]), a[2])
         IN  <<(a[1] \div g1) * (b[1] \div g2), (a[2] \div g2) * (b[2] \div g1)>>
\* 1/b; a zero divisor is an evaluation error (ZeroDivisionError)
RInv(b) ==
    IF b[1] > 0 THEN <<b[2], b[1]>>
    ELSE IF b[1] < 0 THEN <<-b[2], -b[1]>>
    ELSE <<1 \div b[1], 1>>
RDiv(a, b) == RMul(a, RInv(b))
RSq(a) == <<a[1] * a[1], a[2] * a[2]>>
RNeg(a) == <<-a[1], a[2]>>
RLe(a, b) ==
    LET g == GCD(a[2], b[2])
    IN  a[1] * (b[2] \div g) <= b[1] * (a[2] \div g)
RLt(a, b) ==
    LET g == GCD(a[2], b[2])
    IN  a[1] * (b[2] \div g) < b[1] * (a[2] \div g)
RMax(a, b) == IF RLe(b, a) THEN a ELSE b
RMin(a, b) == IF RLe(a, b) THEN a ELSE b
\* Python int(x): truncation toward zero
\* float("inf"): positive, compares above every other value
PosInf == <<1, 0>>
\* np.isfinite
IsFinite(a) == a[2] # 0

PyInt(a) == IF a[1] >= 0 THEN a[1] \div a[2] ELSE -((-a[1]) \div a[2])
Zero == I(0)

(***************************************************************************)
(* BridgeType, OutputFormat                                                *)
(***************************************************************************)
BridgeType == {"beam", "truss", "arch", "suspension", "cable_stayed", "t_beam", "slab"}
OutputFormat == {"svg", "png", "pdf", "dxf", "all"}

(***************************************************************************)
(* BridgeParameters: the dataclass and its __post_init__ validation.       *)
(***************************************************************************)
\* the defaults of the optional fields
approach_length_default == I(50)
foundation_depth_default == I(5)
girder_depth_default == I(2)
rail_height_default == R(12, 10)

BridgeParametersFields(span, width, height, supports, load, material) ==
    [span_length |-> span, deck_width |-> width, height |-> height,
     supports |-> supports, load_capacity |-> load, material |-> material,
     approach_length |-> approach_length_default,
     foundation_depth |-> foundation_depth_default,
     girder_depth |-> girder_depth_default,
     rail_height |-> rail_height_default]

\* a validation that lets a zero dimension through
PostInitZeroAccepted(p) ==
    IF RLt(p.span_length, Zero) THEN "ValueError: Span length must be positive"
    ELSE IF RLt(p.deck_width, Zero) THEN "ValueError: Deck width must be positive"
    ELSE IF RLt(p.height, Zero) THEN "ValueError: Height must be positive"
    ELSE "none"

\* __post_init__: the exception it raises, or "none"
PostInit(p) ==
    IF RLe(p.span_length, Zero) THEN "ValueError: Span length must be positive"
    ELSE IF RLe(p.deck_width, Zero) THEN "ValueError: Deck width must be positive"
    ELSE IF RLe(p.height, Zero) THEN "ValueError: Height must be positive"
    ELSE "none"

(***************************************************************************)
(* The drawing canvases and the DXF document.                              *)
(* An Axes holds its artists as matplotlib does: patches (Rectangle),      *)
(* lines (plot), collections (fill_between) and texts (text/annotate).     *)
(* Each artist carries the name of the source variable that built it.      *)
(***************************************************************************)
EmptyAxes == [patches |-> <<>>, lines |-> <<>>, collections |-> <<>>, texts |-> <<>>]
EmptyDxf == [layers |-> <<>>, entities |-> <<>>]
NoCall == [op |-> "none"]
NoMapped == <<>>

\* the state before anything has been constructed
InitIdle ==
    /\ call = NoCall
    /\ raised = "none"
    /\ params = None
    /\ bridge_type = None
    /\ figure = None
    /\ ax_elevation = None
    /\ ax_plan = None
    /\ dxf = None
    /\ files = {}
    /\ pc = "idle"
    /\ exit_code = None
    /\ mapped = NoMapped
    /\ args = None
    /\ examples = <<>>

(***************************************************************************)
(* Specification SpecParams: constructing BridgeParameters records.        *)
(***************************************************************************)
DimensionInputs == {I(-1), Zero, R(1, 2), I(40)}
SupportsInputs == {-1, 2}
LoadInputs == {I(-5), I(50)}
MaterialInputs == {"steel"}

\* params = BridgeParameters(...): the name is bound only when no exception
\* leaves the constructor
NewBridgeParameters(span, width, height, supports, load, material) ==
    LET p == BridgeParametersFields(span, width, height, supports, load, material)
        err == PostInit(p)
    IN  /\ call' = [op |-> "BridgeParameters", args |-> p]
        /\ raised' = err
        /\ params' = IF err = "none" THEN Some(p) ELSE params
        /\ UNCHANGED <<bridge_type, figure, ax_elevation, ax_plan, dxf, files,
                       pc, exit_code, mapped, args, examples>>

NextParams ==
    \E span \in DimensionInputs, width \in DimensionInputs, height \in DimensionInputs,
       supports \in SupportsInputs, load \in LoadInputs, material \in MaterialInputs :
        NewBridgeParameters(span, width, height, supports, load, material)

SpecParams == InitIdle /\ [][NextParams]_vars

\* the three dimensions of a record are strictly positive
Validated(p) ==
    /\ RLt(Zero, p.span_length)
    /\ RLt(Zero, p.deck_width)
    /\ RLt(Zero, p.height)

\* C1: constructing BridgeParameters raises exactly when span_length, deck_width
\* or height is <= 0, whatever the other fields are; a construction that raises
\* binds no object, one that succeeds binds the record with the given fields, so
\* no record with a non-positive dimension ever exists.
C1_ValidationAtConstruction ==
    /\ call.op = "BridgeParameters" =>
          /\ (raised # "none") <=> ~Validated(call.args)
          /\ raised = "none" => params = Some(call.args)
          /\ raised # "none" => params # Some(call.args)
    /\ params # None => Validated(Get(params))

\* C1 witness: a construction with span_length = 0 has raised and left no object,
C1_Witness_Rejected ==
    /\ call.op = "BridgeParameters"
    /\ call.args.span_length = Zero
    /\ raised = "ValueError: Span length must be positive"
    /\ params = None

(***************************************************************************)
(* Coordinate mappers.                                                     *)
(***************************************************************************)
\* EnhancedBridgeDrawer.hpos / vpos (src/enhanced_bridge_app.py)
DrawerHpos(chainage, left, scale) == RAdd(left, RMul(RSub(chainage, left), scale))
DrawerVpos(level, datum, scale) == RAdd(datum, RMul(RSub(level, datum), scale))

\* hpos / vpos / h2pos / v2pos of COORDINATE_FUNCTIONS (src/fix_empty_output_issues.py)
FixHpos(ch, left, scale) == RMul(RSub(ch, left), scale)
FixVpos(rl, datum, scale) == RMul(RSub(rl, datum), scale)
FixH2pos(ch, left, scale2) == RMul(RSub(ch, left), scale2)
FixV2pos(rl, datum, scale2) == RMul(RSub(rl, datum), scale2)

\* hpos / vpos local to test_comprehensive_bridge_generation, and the inline
\* expressions of test_coordinate_functions (src/verify_dxf_generation.py)
VerifyHpos(ch, left_ref, scale_factor) == RMul(RSub(ch, left_ref), scale_factor)
VerifyVpos(rl, datum_ref, scale_factor) == RMul(RSub(rl, datum_ref), scale_factor)
VerifyInlineX(ch, left, scale) == RMul(RSub(ch, left), scale)
VerifyInlineY(rl, datum, scale) == RMul(RSub(rl, datum), scale)

ChainageInputs == {Zero, I(50), R(25, 2)}
LevelInputs == {I(100), I(105)}
LeftInputs == {Zero, I(10)}
DatumInputs == {Zero, I(100)}
ScaleInputs == {I(1), I(2), R(1, 2), I(100)}

\* every mapper of the repository applied to one point
MapPoint(ch, rl, left, datum, scale) ==
    /\ call' = [op |-> "map", chainage |-> ch, level |-> rl, left |-> left,
                datum |-> datum, scale |-> scale]
    /\ mapped' = [drawer |-> <<DrawerHpos(ch, left, scale), DrawerVpos(rl, datum, scale)>>,
                  fix |-> <<FixHpos(ch, left, scale), FixVpos(rl, datum, scale)>>,
                  fix2 |-> <<FixH2pos(ch, left, scale), FixV2pos(rl, datum, scale)>>,
                  verify |-> <<VerifyHpos(ch, left, scale), VerifyVpos(rl, datum, scale)>>,
                  inline |-> <<VerifyInlineX(ch, left, scale), VerifyInlineY(rl, datum, scale)>>]
    /\ UNCHANGED <<raised, params, bridge_type, figure, ax_elevation, ax_plan, dxf,
                   files, pc, exit_code, args, examples>>

\* the horizontal mappers applied to the chainages a + b, a and b + left
MapChainages(a, b, left, scale) ==
    /\ call' = [op |-> "hpos3", a |-> a, b |-> b, left |-> left, scale |-> scale]
    /\ mapped' = [drawer |-> <<DrawerHpos(RAdd(a, b), left, scale),
                               DrawerHpos(a, left, scale),
                               DrawerHpos(RAdd(b, left), left, scale)>>,
                  verify |-> <<VerifyHpos(RAdd(a, b), left, scale),
                               VerifyHpos(a, left, scale),
                               VerifyHpos(RAdd(b, left), left, scale)>>]
    /\ UNCHANGED <<raised, params, bridge_type, figure, ax_elevation, ax_plan, dxf,
                   files, pc, exit_code, args, examples>>

NextMapper ==
    \/ \E ch \in ChainageInputs, rl \in LevelInputs, left \in LeftInputs,
          datum \in DatumInputs, scale \in ScaleInputs :
            MapPoint(ch, rl, left, datum, scale)
    \/ \E a \in ChainageInputs, b \in ChainageInputs, left \in LeftInputs,
          scale \in ScaleInputs :
            MapChainages(a, b, left, scale)

SpecMapper == InitIdle /\ [][NextMapper]_vars

\* the contract (chainage - left) * scale, (level - datum) * scale
ContractXY(c) ==
    <<RMul(RSub(c.chainage, c.left), c.scale), RMul(RSub(c.level, c.datum), c.scale)>>

\* C3: every hpos/vpos of the repository returns x = (chainage - left) * scale and
\* y = (level - datum) * scale, also when left # 0 or datum # 0.
C3_AllMappersMeetContract ==
    call.op = "map" =>
        /\ mapped.drawer = ContractXY(call)
        /\ mapped.fix = ContractXY(call)
        /\ mapped.fix2 = ContractXY(call)
        /\ mapped.verify = ContractXY(call)
        /\ mapped.inline = ContractXY(call)

\* C4: the horizontal mapping is linear, for the hpos the DXF drawer uses and for
\* the one of the verification script:
\* hpos(a + b, left, s) - hpos(a, left, s) = hpos(b + left, left, s).
C4_HposLinear ==
    call.op = "hpos3" =>
        /\ RSub(mapped.drawer[1], mapped.drawer[2]) = mapped.drawer[3]
        /\ RSub(mapped.verify[1], mapped.verify[2]) = mapped.verify[3]

(***************************************************************************)
(* Artists and sequence helpers.                                           *)
(***************************************************************************)
\* matplotlib.patches.Rectangle((x, y), w, h), named after the source variable
Rect(name, x, y, w, h) == [name |-> name, x |-> x, y |-> y, w |-> w, h |-> h]
\* Axes.plot(xs, ys), named after the member it draws
Line(name, xs, ys) == [name |-> name, xs |-> xs, ys |-> ys]

\* [F(lo), ..., F(hi)]: the iterations of `for i in range(lo, hi + 1)`
Range(lo, hi, F(_)) == [k \in 1..(hi - lo + 1) |-> F(lo + k - 1)]

RECURSIVE Concat(_)
Concat(ss) ==
    IF Len(ss) = 0 THEN <<>>
    ELSE IF Len(ss) = 1 THEN ss[1]
    ELSE LET half == Len(ss) \div 2
         IN  Concat(SubSeq(ss, 1, half)) \o Concat(SubSeq(ss, half + 1, Len(ss)))

\* the sub-spans counted as min(max(1, supports), 30)
NumSpansFromSupports(p) ==
    LET m == IF p.supports > 1 THEN p.supports ELSE 1
    IN  IF m < 30 THEN m ELSE 30

\* min(max(1, supports + 1), 30): the number of sub-spans
NumSpans(p) ==
    LET m == IF p.supports + 1 > 1 THEN p.supports + 1 ELSE 1
    IN  IF m < 30 THEN m ELSE 30

IMax(a, b) == IF a >= b THEN a ELSE b

(***************************************************************************)
(* Beam bridge                                                             *)
(***************************************************************************)
\* a pier placed on a spacing of span / supports
beam_pier_x_pos_SpacingBySupports(p, i) ==
    RSub(RMul(RDiv(p.span_length, I(p.supports)), I(i + 1)), RDiv(I(2), I(2)))

\* x_pos of pier i (0-based): support_spacing * (i + 1) - support_width / 2
beam_pier_x_pos(p, i) ==
    LET support_spacing == RDiv(p.span_length, I(p.supports + 1))
        support_width == I(2)
    IN  RSub(RMul(support_spacing, I(i + 1)), RDiv(support_width, I(2)))

draw_beam_bridge_elevation(p) ==
    LET deck_y == RSub(p.height, p.girder_depth)
        girder_height == RMul(p.girder_depth, R(8, 10))
        girder_y == RSub(deck_y, girder_height)
        support_width == I(2)
        x_pos(i) == beam_pier_x_pos(p, i)
        pier_height == RAdd(RSub(p.height, p.girder_depth), p.foundation_depth)
        pier(i) == Rect("pier", x_pos(i), RNeg(p.foundation_depth), support_width, pier_height)
        foundation_width == RMul(support_width, I(2))
        foundation(i) == Rect("foundation", RSub(x_pos(i), RDiv(support_width, I(2))),
                              RNeg(p.foundation_depth), foundation_width,
                              RMul(p.foundation_depth, R(6, 10)))
        abutment_width == I(3)
        abutment(x) == Rect("abutment", RSub(x, RDiv(abutment_width, I(2))),
                            RNeg(p.foundation_depth), abutment_width, pier_height)
    IN  [patches |->
            <<Rect("deck", Zero, deck_y, p.span_length, p.girder_depth)>>
            \o Range(0, 1, LAMBDA i : Rect("girder", Zero, girder_y, p.span_length,
                                           RMul(girder_height, R(3, 10))))
            \o (IF p.supports > 0
                THEN Concat(Range(0, p.supports - 1, LAMBDA i : <<pier(i), foundation(i)>>))
                ELSE <<>>)
            \o <<abutment(Zero), abutment(p.span_length)>>,
         lines |-> <<Line("railing", <<Zero, p.span_length>>, <<p.height, p.height>>)>>,
         collections |-> <<>>,
         texts |-> <<>>]

\* a deck outline drawn with the two extents exchanged
beam_deck_plan_Transposed(p) == Rect("deck_plan", Zero, Zero, p.deck_width, p.span_length)

\* deck_plan = Rectangle((0, 0), span_length, deck_width)
beam_deck_plan(p) == Rect("deck_plan", Zero, Zero, p.span_length, p.deck_width)

draw_beam_bridge_plan(p) ==
    LET girder_width == R(6, 10)
        girder_positions == <<RMul(p.deck_width, R(2, 10)), RMul(p.deck_width, R(8, 10))>>
        num_cross_beams == IMax(5, PyInt(RDiv(p.span_length, I(15))))
        cross_beam_spacing == RDiv(p.span_length, I(num_cross_beams - 1))
        cross_beam_width == R(3, 10)
        support_spacing == RDiv(p.span_length, I(p.supports + 1))
        support_width == I(2)
        support_depth == R(15, 10)
    IN  [patches |->
            <<beam_deck_plan(p)>>
            \o Range(1, 2, LAMBDA k : Rect("girder_plan", Zero,
                    RSub(girder_positions[k], RDiv(girder_width, I(2))),
                    p.span_length, girder_width))
            \o Range(0, num_cross_beams - 1, LAMBDA i : Rect("cross_beam",
                    RSub(RMul(I(i), cross_beam_spacing), RDiv(cross_beam_width, I(2))),
                    Zero, cross_beam_width, p.deck_width))
            \o (IF p.supports > 0
                THEN Range(0, p.supports - 1, LAMBDA i : Rect("pier_plan",
                        RSub(RMul(support_spacing, I(i + 1)), RDiv(support_width, I(2))),
                        RDiv(RSub(p.deck_width, support_depth), I(2)),
                        support_width, support_depth))
                ELSE <<>>),
         lines |->
            <<Line("centerline", <<Zero, p.span_length>>,
                   <<RDiv(p.deck_width, I(2)), RDiv(p.deck_width, I(2))>>),
              Line("edge", <<Zero, p.span_length>>, <<Zero, Zero>>),
              Line("edge", <<Zero, p.span_length>>, <<p.deck_width, p.deck_width>>)>>,
         collections |-> <<>>,
         texts |-> <<>>]

(***************************************************************************)
(* Truss bridge                                                            *)
(***************************************************************************)
draw_truss_bridge_elevation(p) ==
    LET num_spans == NumSpans(p)
        span_length == RDiv(p.span_length, I(num_spans))
        deck_y == RMul(p.height, R(3, 10))
        truss_height == RSub(RSub(p.height, deck_y), I(1))
        num_panels == IMax(4, PyInt(RDiv(span_length, I(10))))
        panel_width == RDiv(span_length, I(num_panels))
        top_y == RAdd(deck_y, truss_height)
        span_start(s) == RMul(I(s), span_length)
        span_end(s) == RMul(I(s + 1), span_length)
        x(s, i) == RAdd(span_start(s), RMul(I(i), panel_width))
        members(s, i) ==
            <<Line("vertical", <<x(s, i), x(s, i)>>, <<deck_y, top_y>>)>>
            \o (IF i < num_panels
                THEN IF i % 2 = 0
                     THEN <<Line("diagonal", <<x(s, i), x(s, i + 1)>>, <<deck_y, top_y>>)>>
                     ELSE <<Line("diagonal", <<x(s, i), x(s, i + 1)>>, <<top_y, deck_y>>)>>
                ELSE <<>>)
        span_lines(s) ==
            <<Line("top_chord", <<span_start(s), span_end(s)>>, <<top_y, top_y>>),
              Line("bottom_chord", <<span_start(s), span_end(s)>>, <<deck_y, deck_y>>)>>
            \o Concat(Range(0, num_panels, LAMBDA i : members(s, i)))
        support_width == R(25, 10)
    IN  [patches |->
            Range(0, num_spans - 1, LAMBDA s :
                Rect("deck", span_start(s), deck_y, span_length, R(5, 10)))
            \o Range(0, num_spans, LAMBDA i : Rect("support",
                    RSub(RMul(I(i), span_length), RDiv(support_width, I(2))),
                    RNeg(p.foundation_depth), support_width,
                    RAdd(deck_y, p.foundation_depth))),
         lines |-> Concat(Range(0, num_spans - 1, LAMBDA s : span_lines(s))),
         collections |-> <<>>,
         texts |-> <<>>]

draw_truss_bridge_plan(p) ==
    LET truss_width == I(1)
        truss_positions == <<RMul(p.deck_width, R(15, 100)), RMul(p.deck_width, R(85, 100))>>
        num_cross_frames == IMax(8, PyInt(RDiv(p.span_length, I(10))))
        cross_frame_spacing == RDiv(p.span_length, I(num_cross_frames - 1))
        num_spans == NumSpans(p)
        span_length == RDiv(p.span_length, I(num_spans))
        support_width == R(25, 10)
    IN  [patches |->
            <<Rect("deck_plan", Zero, Zero, p.span_length, p.deck_width)>>
            \o Range(1, 2, LAMBDA k : Rect("truss_plan", Zero,
                    RSub(truss_positions[k], RDiv(truss_width, I(2))),
                    p.span_length, truss_width))
            \o Range(0, num_spans, LAMBDA i : Rect("support_plan",
                    RSub(RMul(I(i), span_length), RDiv(support_width, I(2))),
                    RDiv(RSub(p.deck_width, support_width), I(2)),
                    support_width, support_width)),
         lines |->
            Range(0, num_cross_frames - 1, LAMBDA i : Line("cross_frame",
                <<RMul(I(i), cross_frame_spacing), RMul(I(i), cross_frame_spacing)>>,
                <<truss_positions[1], truss_positions[2]>>)),
         collections |-> <<>>,
         texts |-> <<>>]

(***************************************************************************)
(* Sines and cosines.  np.sin and np.cos are evaluated only at the         *)
(* multiples k * pi / n that the code reaches; the tables hold              *)
(* round(10^4 * sin(k * pi / n)) for k = 0..n, the fixed-point image of    *)
(* the float results.                                                      *)
(***************************************************************************)
SinTable4 ==
    <<0, 7071, 10000, 7071, 0>>
SinTable6 ==
    <<0, 5000, 8660, 10000, 8660, 5000, 0>>
SinTable11 ==
    <<0, 2817, 5406, 7557, 9096, 9898, 9898, 9096, 7557, 5406, 2817, 0>>
SinTable99 ==
    <<0, 317, 634, 951, 1266, 1580, 1893, 2203, 2511, 2817, 3120, 3420,
      3717, 4009, 4298, 4582, 4862, 5137, 5406, 5671, 5929, 6182, 6428, 6668,
      6901, 7127, 7346, 7557, 7761, 7958, 8146, 8326, 8497, 8660, 8815, 8960,
      9096, 9224, 9341, 9450, 9549, 9638, 9718, 9788, 9848, 9898, 9938, 9969,
      9989, 9999, 9999, 9989, 9969, 9938, 9898, 9848, 9788, 9718, 9638, 9549,
      9450, 9341, 9224, 9096, 8960, 8815, 8660, 8497, 8326, 8146, 7958, 7761,
      7557, 7346, 7127, 6901, 6668, 6428, 6182, 5929, 5671, 5406, 5137, 4862,
      4582, 4298, 4009, 3717, 3420, 3120, 2817, 2511, 2203, 1893, 1580, 1266,
      951, 634, 317, 0>>
CosTable99 ==
    <<10000, 9995, 9980, 9955, 9920, 9874, 9819, 9754, 9679, 9595, 9501, 9397,
      9284, 9161, 9029, 8888, 8738, 8580, 8413, 8237, 8053, 7861, 7660, 7453,
      7237, 7015, 6785, 6549, 6306, 6056, 5801, 5539, 5272, 5000, 4723, 4441,
      4154, 3863, 3569, 3271, 2969, 2665, 2358, 2048, 1736, 1423, 1108, 792,
      476, 159, -159, -476, -792, -1108, -1423, -1736, -2048, -2358, -2665, -2969,
      -3271, -3569, -3863, -4154, -4441, -4723, -5000, -5272, -5539, -5801, -6056, -6306,
      -6549, -6785, -7015, -7237, -7453, -7660, -7861, -8053, -8237, -8413, -8580, -8738,
      -8888, -9029, -9161, -9284, -9397, -9501, -9595, -9679, -9754, -9819, -9874, -9920,
      -9955, -9980, -9995, -10000>>

\* sin(k * pi / n)
SinPi(k, n) ==
    CASE n = 4 -> R(SinTable4[k + 1], 10000)
      [] n = 6 -> R(SinTable6[k + 1], 10000)
      [] n = 11 -> R(SinTable11[k + 1], 10000)
      [] n = 99 -> R(SinTable99[k + 1], 10000)
\* cos(k * pi / 99)
CosPi99(k) == R(CosTable99[k + 1], 10000)

(***************************************************************************)
(* Arch bridge                                                             *)
(***************************************************************************)
\* arch_x without the shift to the middle of the sub-span
arch_x_at_Unshifted(span_length, span_start, k) ==
    RAdd(RMul(RDiv(span_length, I(2)), CosPi99(k)), span_start)

\* arch_x of sample k of the sub-span starting at span_start
arch_x_at(span_length, span_start, k) ==
    RAdd(RAdd(RMul(RDiv(span_length, I(2)), CosPi99(k)), span_start),
         RDiv(span_length, I(2)))

\* the fill_between collection of one sub-span: outer and inner arch curve
arch_profile(p, span_idx) ==
    LET span_length == RDiv(p.span_length, I(NumSpans(p)))
        span_start == RMul(I(span_idx), span_length)
        arch_center_y == Zero
        arch_rise == RMul(p.height, R(7, 10))
        arch_thickness == I(2)
        arch_y(k) == RAdd(RMul(arch_rise, SinPi(k, 99)), arch_center_y)
        inner_y(k) == RAdd(RMul(RSub(arch_rise, arch_thickness), SinPi(k, 99)), arch_center_y)
    IN  [name |-> "arch",
         x |-> Range(0, 99, LAMBDA k : arch_x_at(span_length, span_start, k)),
         y1 |-> Range(0, 99, LAMBDA k : arch_y(k)),
         y2 |-> Range(0, 99, LAMBDA k : inner_y(k)),
         where |-> Range(0, 99, LAMBDA k : RLe(inner_y(k), arch_y(k)))]

draw_arch_bridge_elevation(p) ==
    LET num_spans == NumSpans(p)
        span_length == RDiv(p.span_length, I(num_spans))
        arch_rise == RMul(p.height, R(7, 10))
        num_spandrels == IMax(3, PyInt(RDiv(span_length, I(20))))
        spandrel_spacing == RDiv(span_length, I(num_spandrels + 1))
        spandrel(s, i) ==
            LET x_pos == RAdd(RMul(I(s), span_length), RMul(I(i), spandrel_spacing))
                arch_height_at_x == RMul(arch_rise, SinPi(i, num_spandrels + 1))
            IN  Rect("spandrel", RSub(x_pos, R(3, 10)), arch_height_at_x, R(6, 10),
                     RSub(RAdd(arch_rise, I(2)), arch_height_at_x))
        deck_y == RAdd(arch_rise, I(2))
        abutment_width == I(4)
        abutment_height == RAdd(arch_rise, I(5))
    IN  [patches |->
            Concat(Range(0, num_spans - 1, LAMBDA s :
                Range(1, num_spandrels, LAMBDA i : spandrel(s, i))))
            \o <<Rect("deck", Zero, deck_y, p.span_length, R(8, 10))>>
            \o Range(0, 1, LAMBDA e : Rect("abutment",
                    RSub(RMul(I(e), p.span_length), RDiv(abutment_width, I(2))),
                    RNeg(p.foundation_depth), abutment_width,
                    RAdd(abutment_height, p.foundation_depth)))
            \o Range(1, num_spans - 1, LAMBDA i : Rect("pier",
                    RSub(RMul(I(i), span_length), RDiv(abutment_width, I(3))),
                    RNeg(p.foundation_depth), RDiv(RMul(abutment_width, I(2)), I(3)),
                    RAdd(abutment_height, p.foundation_depth))),
         lines |-> <<>>,
         collections |-> Range(0, num_spans - 1, LAMBDA s : arch_profile(p, s)),
         texts |-> <<>>]

draw_arch_bridge_plan(p) ==
    LET num_ribs == 3
        rib_width == I(1)
        rib_spacing == RDiv(p.deck_width, I(num_ribs + 1))
        num_spans == NumSpans(p)
        span_length == RDiv(p.span_length, I(num_spans))
        num_spandrels == IMax(3, PyInt(RDiv(span_length, I(20))))
        spandrel_spacing == RDiv(span_length, I(num_spandrels + 1))
        support_width == I(4)
        pier_width == RDiv(RMul(support_width, I(2)), I(3))
    IN  [patches |->
            <<Rect("deck_plan", Zero, Zero, p.span_length, p.deck_width)>>
            \o Range(0, num_ribs - 1, LAMBDA i : Rect("rib_plan", Zero,
                    RSub(RMul(I(i + 1), rib_spacing), RDiv(rib_width, I(2))),
                    p.span_length, rib_width))
            \o Concat(Range(0, num_spans - 1, LAMBDA s :
                Range(1, num_spandrels, LAMBDA i : Rect("spandrel_plan",
                    RSub(RAdd(RMul(I(s), span_length), RMul(I(i), spandrel_spacing)), R(3, 10)),
                    Zero, R(6, 10), p.deck_width))))
            \o Range(0, 1, LAMBDA e : Rect("abutment_plan",
                    RSub(RMul(I(e), p.span_length), RDiv(support_width, I(2))),
                    RDiv(RSub(p.deck_width, support_width), I(2)),
                    support_width, support_width))
            \o Range(1, num_spans - 1, LAMBDA i : Rect("pier_plan",
                    RSub(RMul(I(i), span_length), RDiv(support_width, I(3))),
                    RDiv(RSub(p.deck_width, pier_width), I(2)),
                    pier_width, pier_width)),
         lines |-> <<>>,
         collections |-> <<>>,
         texts |-> <<>>]

(***************************************************************************)
(* Suspension bridge                                                       *)
(***************************************************************************)
\* tower_positions = [span_length * 0.2, span_length * 0.8]
tower_positions(p) == <<RMul(p.span_length, R(2, 10)), RMul(p.span_length, R(8, 10))>>

\* np.linspace(a, b, n)[k], k = 0..n-1
linspace(a, b, n, k) == RAdd(a, RMul(I(k), RDiv(RSub(b, a), I(n - 1))))

\* a main cable whose parabola is centred on the first tower
main_cable_y_CentredOnTower(p, x) ==
    LET tp == tower_positions(p)
        cable_sag == RMul(p.height, R(3, 10))
        deck_y == RMul(p.height, R(4, 10))
    IN  RAdd(deck_y, RMul(cable_sag,
            RSub(I(1), RDiv(RMul(I(4), RSq(RSub(x, tp[1]))),
                            RSq(RSub(tp[2], tp[1]))))))

\* the main cable: deck_y + cable_sag * (1 - 4 * (x - span/2)**2 / (t1 - t0)**2)
main_cable_y(p, x) ==
    LET tp == tower_positions(p)
        cable_sag == RMul(p.height, R(3, 10))
        deck_y == RMul(p.height, R(4, 10))
    IN  RAdd(deck_y, RMul(cable_sag,
            RSub(I(1), RDiv(RMul(I(4), RSq(RSub(x, RDiv(p.span_length, I(2))))),
                            RSq(RSub(tp[2], tp[1]))))))

draw_suspension_bridge_elevation(p) ==
    LET tower_height == p.height
        tower_width == I(3)
        tp == tower_positions(p)
        tower(x_pos) == Rect("tower", RSub(x_pos, RDiv(tower_width, I(2))),
                             RNeg(p.foundation_depth), tower_width,
                             RAdd(tower_height, p.foundation_depth))
        crossbeam(x_pos) == Rect("crossbeam", RSub(x_pos, tower_width),
                                 RSub(tower_height, I(2)), RMul(tower_width, I(2)), I(1))
        deck_y == RMul(p.height, R(4, 10))
        x_cable(k) == linspace(tp[1], tp[2], 100, k)
        x_left(k) == linspace(Zero, tp[1], 50, k)
        y_left(k) == RSub(tower_height, RMul(RSub(tower_height, deck_y),
                                             RSq(RDiv(x_left(k), tp[1]))))
        x_right(k) == linspace(tp[2], p.span_length, 50, k)
        y_right(k) == RSub(tower_height, RMul(RSub(tower_height, deck_y),
                        RSq(RDiv(RSub(x_right(k), p.span_length),
                                 RSub(tp[2], p.span_length)))))
        num_hangers == 20
        hanger_spacing == RDiv(p.span_length, I(num_hangers))
        hanger(i) ==
            LET x_hanger == RMul(I(i), hanger_spacing)
            IN  IF RLe(tp[1], x_hanger) /\ RLe(x_hanger, tp[2])
                THEN <<Line("hanger", <<x_hanger, x_hanger>>,
                            <<RAdd(deck_y, R(8, 10)), main_cable_y(p, x_hanger)>>)>>
                ELSE <<>>
        anchorage_width == I(6)
    IN  [patches |->
            <<tower(tp[1]), crossbeam(tp[1]), tower(tp[2]), crossbeam(tp[2])>>
            \o <<Rect("deck", Zero, deck_y, p.span_length, R(8, 10))>>
            \o Range(0, 1, LAMBDA e : Rect("anchorage",
                    RSub(RMul(I(e), p.span_length), RDiv(anchorage_width, I(2))),
                    RNeg(p.foundation_depth), anchorage_width,
                    RAdd(deck_y, p.foundation_depth))),
         lines |->
            <<Line("main_cable", Range(0, 99, LAMBDA k : x_cable(k)),
                   Range(0, 99, LAMBDA k : main_cable_y(p, x_cable(k)))),
              Line("side_cable_left", Range(0, 49, LAMBDA k : x_left(k)),
                   Range(0, 49, LAMBDA k : y_left(k))),
              Line("side_cable_right", Range(0, 49, LAMBDA k : x_right(k)),
                   Range(0, 49, LAMBDA k : y_right(k)))>>
            \o Concat(Range(1, num_hangers - 1, LAMBDA i : hanger(i))),
         collections |-> <<>>,
         texts |-> <<>>]

draw_suspension_bridge_plan(p) ==
    LET cable_positions == <<RMul(p.deck_width, R(1, 10)), RMul(p.deck_width, R(9, 10))>>
        cable_width == R(5, 10)
        tp == tower_positions(p)
        tower_width == I(3)
        tower_depth == I(2)
        truss_positions == <<RMul(p.deck_width, R(25, 100)), RMul(p.deck_width, R(75, 100))>>
        truss_width == R(8, 10)
        anchorage_width == I(6)
    IN  [patches |->
            <<Rect("deck_plan", Zero, Zero, p.span_length, p.deck_width)>>
            \o Range(1, 2, LAMBDA k : Rect("cable_plan", Zero,
                    RSub(cable_positions[k], RDiv(cable_width, I(2))),
                    p.span_length, cable_width))
            \o Range(1, 2, LAMBDA k : Rect("tower_plan",
                    RSub(tp[k], RDiv(tower_width, I(2))),
                    RDiv(RSub(p.deck_width, tower_depth), I(2)),
                    tower_width, tower_depth))
            \o Range(1, 2, LAMBDA k : Rect("truss_plan", Zero,
                    RSub(truss_positions[k], RDiv(truss_width, I(2))),
                    p.span_length, truss_width))
            \o Range(0, 1, LAMBDA e : Rect("anchorage_plan",
                    RSub(RMul(I(e), p.span_length), RDiv(anchorage_width, I(2))),
                    RDiv(RSub(p.deck_width, anchorage_width), I(2)),
                    anchorage_width, anchorage_width)),
         lines |-> <<>>,
         collections |-> <<>>,
         texts |-> <<>>]

(***************************************************************************)
(* Cable-stayed bridge                                                     *)
(***************************************************************************)
\* tower_positions: (i + 1) * span_length for i in range(supports)
cable_stayed_tower_positions(p) ==
    LET span_length == RDiv(p.span_length, I(NumSpans(p)))
    IN  Range(0, p.supports - 1, LAMBDA i : RMul(I(i + 1), span_length))

\* the deck-side x of the stay cables of one tower, in drawing order
stay_cable_deck_xs(p, tower_x) ==
    LET span_length == RDiv(p.span_length, I(NumSpans(p)))
        num_cables == IMax(4, PyInt(RDiv(span_length, I(15))))
        deck_x_left(i) ==
            RSub(tower_x, RDiv(RMul(I(i), RMin(tower_x, span_length)), I(num_cables + 1)))
        deck_x_right(i) ==
            RAdd(tower_x, RDiv(RMul(I(i), RMin(RSub(p.span_length, tower_x), span_length)),
                               I(num_cables + 1)))
        left(i) == IF RLt(Zero, tower_x) /\ RLe(Zero, deck_x_left(i))
                   THEN <<deck_x_left(i)>> ELSE <<>>
        right(i) == IF RLt(tower_x, p.span_length) /\ RLe(deck_x_right(i), p.span_length)
                    THEN <<deck_x_right(i)>> ELSE <<>>
    IN  Concat(Range(1, num_cables, LAMBDA i : left(i) \o right(i)))

draw_cable_stayed_bridge_elevation(p) ==
    LET towers == cable_stayed_tower_positions(p)
        tower_height == p.height
        tower_width == I(4)
        deck_y == RMul(p.height, R(3, 10))
        cable_attachment_height == RMul(tower_height, R(8, 10))
        cables(tower_x) ==
            LET xs == stay_cable_deck_xs(p, tower_x)
            IN  Range(1, Len(xs), LAMBDA j : Line("cable", <<tower_x, xs[j]>>,
                        <<cable_attachment_height, RAdd(deck_y, R(8, 10))>>))
        abutment_width == I(5)
    IN  [patches |->
            Range(1, Len(towers), LAMBDA t : Rect("tower",
                    RSub(towers[t], RDiv(tower_width, I(2))), RNeg(p.foundation_depth),
                    tower_width, RAdd(tower_height, p.foundation_depth)))
            \o <<Rect("deck", Zero, deck_y, p.span_length, R(8, 10))>>
            \o Range(0, 1, LAMBDA e : Rect("abutment",
                    RSub(RMul(I(e), p.span_length), RDiv(abutment_width, I(2))),
                    RNeg(p.foundation_depth), abutment_width,
                    RAdd(deck_y, p.foundation_depth))),
         lines |-> Concat(Range(1, Len(towers), LAMBDA t : cables(towers[t]))),
         collections |-> <<>>,
         texts |-> <<>>]

draw_cable_stayed_bridge_plan(p) ==
    LET towers == cable_stayed_tower_positions(p)
        tower_width == I(4)
        tower_depth == I(3)
        cable_positions == <<RMul(p.deck_width, R(15, 100)), RMul(p.deck_width, R(85, 100))>>
        cables(tower_x, y_cable) ==
            LET xs == stay_cable_deck_xs(p, tower_x)
            IN  Range(1, Len(xs), LAMBDA j : Line("cable", <<tower_x, xs[j]>>,
                        <<RDiv(p.deck_width, I(2)), y_cable>>))
        girder_positions == <<RMul(p.deck_width, R(2, 10)), RMul(p.deck_width, R(8, 10))>>
        girder_width == R(8, 10)
        abutment_width == I(5)
    IN  [patches |->
            <<Rect("deck_plan", Zero, Zero, p.span_length, p.deck_width)>>
            \o Range(1, Len(towers), LAMBDA t : Rect("tower_plan",
                    RSub(towers[t], RDiv(tower_width, I(2))),
                    RDiv(RSub(p.deck_width, tower_depth), I(2)),
                    tower_width, tower_depth))
            \o Range(1, 2, LAMBDA k : Rect("girder_plan", Zero,
                    RSub(girder_positions[k], RDiv(girder_width, I(2))),
                    p.span_length, girder_width))
            \o Range(0, 1, LAMBDA e : Rect("abutment_plan",
                    RSub(RMul(I(e), p.span_length), RDiv(abutment_width, I(2))),
                    RDiv(RSub(p.deck_width, abutment_width), I(2)),
                    abutment_width, abutment_width)),
         lines |->
            Concat(Range(1, Len(towers), LAMBDA t :
                cables(towers[t], cable_positions[1]) \o cables(towers[t], cable_positions[2]))),
         collections |-> <<>>,
         texts |-> <<>>]

(***************************************************************************)
(* T-beam bridge                                                           *)
(***************************************************************************)
draw_t_beam_bridge_elevation(p) ==
    LET num_spans == NumSpans(p)
        span_length == RDiv(p.span_length, I(num_spans))
        deck_y == RSub(p.height, p.girder_depth)
        deck_thickness == R(6, 10)
        girder_height == RSub(p.girder_depth, deck_thickness)
        girder_y == RSub(deck_y, girder_height)
        beam_spacing == RDiv(p.span_length, I(20))
        web_width == R(4, 10)
        flange_width == R(12, 10)
        flange_height == R(3, 10)
        beam(i) ==
            LET x_pos == RMul(I(i), beam_spacing)
            IN  IF RLe(x_pos, p.span_length)
                THEN <<Rect("web", RSub(x_pos, RDiv(web_width, I(2))), girder_y,
                            web_width, girder_height),
                       Rect("flange", RSub(x_pos, RDiv(flange_width, I(2))),
                            RSub(girder_y, flange_height), flange_width, flange_height)>>
                ELSE <<>>
        support_width == I(2)
        pier_height == RAdd(RSub(p.height, p.girder_depth), p.foundation_depth)
        abutment_width == I(3)
    IN  [patches |->
            <<Rect("deck", Zero, deck_y, p.span_length, deck_thickness)>>
            \o Concat(Range(0, PyInt(RDiv(p.span_length, beam_spacing)), LAMBDA i : beam(i)))
            \o (IF num_spans > 1
                THEN Range(1, num_spans - 1, LAMBDA i : Rect("pier",
                        RSub(RMul(I(i), span_length), RDiv(support_width, I(2))),
                        RNeg(p.foundation_depth), support_width, pier_height))
                ELSE <<>>)
            \o Range(0, 1, LAMBDA e : Rect("abutment",
                    RSub(RMul(I(e), p.span_length), RDiv(abutment_width, I(2))),
                    RNeg(p.foundation_depth), abutment_width, pier_height)),
         lines |-> <<>>,
         collections |-> <<>>,
         texts |-> <<>>]

draw_t_beam_bridge_plan(p) ==
    LET num_beams == IMax(3, PyInt(RDiv(p.deck_width, I(3))))
        beam_spacing == RDiv(p.deck_width, I(num_beams + 1))
        beam_width == R(4, 10)
        num_diaphragms == IMax(5, PyInt(RDiv(p.span_length, I(20))))
        diaphragm_spacing == RDiv(p.span_length, I(num_diaphragms - 1))
        diaphragm_width == R(3, 10)
        num_spans == NumSpans(p)
        span_length == RDiv(p.span_length, I(num_spans))
        support_width == I(2)
        abutment_width == I(3)
    IN  [patches |->
            <<Rect("deck_plan", Zero, Zero, p.span_length, p.deck_width)>>
            \o Range(0, num_beams - 1, LAMBDA i : Rect("beam_plan", Zero,
                    RSub(RMul(I(i + 1), beam_spacing), RDiv(beam_width, I(2))),
                    p.span_length, beam_width))
            \o Range(0, num_diaphragms - 1, LAMBDA i : Rect("diaphragm",
                    RSub(RMul(I(i), diaphragm_spacing), RDiv(diaphragm_width, I(2))),
                    Zero, diaphragm_width, p.deck_width))
            \o Range(1, num_spans - 1, LAMBDA i : Rect("support_plan",
                    RSub(RMul(I(i), span_length), RDiv(support_width, I(2))),
                    RDiv(RSub(p.deck_width, support_width), I(2)),
                    support_width, support_width))
            \o Range(0, 1, LAMBDA e : Rect("abutment_plan",
                    RSub(RMul(I(e), p.span_length), RDiv(abutment_width, I(2))),
                    RDiv(RSub(p.deck_width, abutment_width), I(2)),
                    abutment_width, abutment_width)),
         lines |-> <<>>,
         collections |-> <<>>,
         texts |-> <<>>]

(***************************************************************************)
(* Slab bridge                                                             *)
(***************************************************************************)
\* the values of range(0, stop, step), step > 0
RangeStep(stop, step) ==
    [k \in 1..(IF stop > 0 THEN (stop + step - 1) \div step ELSE 0) |-> (k - 1) * step]

\* an expansion joint whose left edge is on the support line
slab_joint_x_FromSupportLine(span_length, i) == RMul(I(i), span_length)

\* joint = Rectangle((x_pos - 0.05, deck_y), 0.1, slab_thickness) with
\* x_pos = i * span_length
slab_joint_x(span_length, i) == RSub(RMul(I(i), span_length), R(5, 100))

draw_slab_bridge_elevation(p) ==
    LET num_spans == NumSpans(p)
        span_length == RDiv(p.span_length, I(num_spans))
        slab_thickness == RMax(R(8, 10), RDiv(p.span_length, I(100)))
        deck_y == RSub(p.height, slab_thickness)
        rebar_spacing == I(2)
        rebar_xs == RangeStep(PyInt(p.span_length), PyInt(rebar_spacing))
        rebar(x) ==
            <<Line("rebar_longitudinal", <<I(x), RAdd(I(x), rebar_spacing)>>,
                   <<RAdd(deck_y, R(1, 10)), RAdd(deck_y, R(1, 10))>>),
              Line("rebar_transverse",
                   <<RAdd(I(x), RDiv(rebar_spacing, I(2))), RAdd(I(x), RDiv(rebar_spacing, I(2)))>>,
                   <<RAdd(deck_y, R(1, 10)), RSub(RAdd(deck_y, slab_thickness), R(1, 10))>>)>>
        support_width == R(25, 10)
        abutment_width == I(4)
    IN  [patches |->
            <<Rect("slab", Zero, deck_y, p.span_length, slab_thickness)>>
            \o (IF num_spans > 1
                THEN Range(1, num_spans - 1, LAMBDA i : Rect("pier",
                        RSub(RMul(I(i), span_length), RDiv(support_width, I(2))),
                        RNeg(p.foundation_depth), support_width,
                        RAdd(deck_y, p.foundation_depth)))
                ELSE <<>>)
            \o Range(0, 1, LAMBDA e : Rect("abutment",
                    RSub(RMul(I(e), p.span_length), RDiv(abutment_width, I(2))),
                    RNeg(p.foundation_depth), abutment_width,
                    RAdd(deck_y, p.foundation_depth)))
            \o (IF num_spans > 1
                THEN Range(1, num_spans - 1, LAMBDA i : Rect("joint",
                        slab_joint_x(span_length, i), deck_y,
                        R(1, 10), slab_thickness))
                ELSE <<>>),
         lines |-> Concat(Range(1, Len(rebar_xs), LAMBDA j : rebar(rebar_xs[j]))),
         collections |-> <<>>,
         texts |-> <<>>]

\* slab_plan = Rectangle((0, 0), span_length, deck_width)
slab_plan_rect(p) == Rect("slab_plan", Zero, Zero, p.span_length, p.deck_width)

draw_slab_bridge_plan(p) ==
    LET rebar_spacing_long == I(3)
        rebar_spacing_trans == R(25, 10)
        ys == RangeStep(PyInt(p.deck_width), PyInt(rebar_spacing_trans))
        xs == RangeStep(PyInt(p.span_length), PyInt(rebar_spacing_long))
        num_joints == PyInt(RDiv(p.span_length, I(30)))
        joint_spacing == RDiv(p.span_length, I(num_joints + 1))
        num_spans == NumSpans(p)
        span_length == RDiv(p.span_length, I(num_spans))
        support_width == R(25, 10)
        abutment_width == I(4)
        edge_marking_spacing == I(10)
        edge_xs == RangeStep(PyInt(p.span_length), PyInt(edge_marking_spacing))
        edge(x) ==
            IF RLe(I(x), p.span_length)
            THEN <<Line("edge_marking", <<I(x), I(x + 2)>>, <<p.deck_width, p.deck_width>>),
                   Line("edge_marking", <<I(x), I(x + 2)>>, <<Zero, Zero>>)>>
            ELSE <<>>
    IN  [patches |->
            <<slab_plan_rect(p)>>
            \o Range(1, num_spans - 1, LAMBDA i : Rect("support_plan",
                    RSub(RMul(I(i), span_length), RDiv(support_width, I(2))),
                    RDiv(RSub(p.deck_width, support_width), I(2)),
                    support_width, support_width))
            \o Range(0, 1, LAMBDA e : Rect("abutment_plan",
                    RSub(RMul(I(e), p.span_length), RDiv(abutment_width, I(2))),
                    RDiv(RSub(p.deck_width, abutment_width), I(2)),
                    abutment_width, abutment_width)),
         lines |->
            Concat(Range(1, Len(ys), LAMBDA j :
                IF RLe(I(ys[j]), p.deck_width)
                THEN <<Line("rebar_longitudinal", <<Zero, p.span_length>>, <<I(ys[j]), I(ys[j])>>)>>
                ELSE <<>>))
            \o Concat(Range(1, Len(xs), LAMBDA j :
                IF RLe(I(xs[j]), p.span_length)
                THEN <<Line("rebar_transverse", <<I(xs[j]), I(xs[j])>>, <<Zero, p.deck_width>>)>>
                ELSE <<>>))
            \o (IF RLt(I(30), p.span_length)
                THEN Range(1, num_joints, LAMBDA i : Line("construction_joint",
                        <<RMul(I(i), joint_spacing), RMul(I(i), joint_spacing)>>,
                        <<Zero, p.deck_width>>))
                ELSE <<>>)
            \o Concat(Range(1, Len(edge_xs), LAMBDA j : edge(edge_xs[j]))),
         collections |-> <<>>,
         texts |-> <<>>]

(***************************************************************************)
(* DXF export: the entities added to the modelspace.                       *)
(***************************************************************************)
LwPolyline(name, layer, points) ==
    [type |-> "LWPOLYLINE", name |-> name, layer |-> layer, points |-> points, text |-> <<>>]
\* msp.add_line(start, end) without dxfattribs: the entity goes to layer "0"
DxfLine_DefaultLayer(name, layer, start, end) ==
    [type |-> "LINE", name |-> name, layer |-> "0", points |-> <<start, end>>, text |-> <<>>]
DxfLine(name, layer, start, end) ==
    [type |-> "LINE", name |-> name, layer |-> layer, points |-> <<start, end>>, text |-> <<>>]
\* add_text(text, height) followed by set_placement(at)
DxfText(name, layer, text, height, at) ==
    [type |-> "TEXT", name |-> name, layer |-> layer, points |-> <<at>>,
     text |-> <<text, height>>]

\* format(x, ".0f"): the nearest integer, ties to even
Format0f(a) ==
    LET fl == a[1] \div a[2]
        twice == 2 * (a[1] - fl * a[2])
    IN  IF twice < a[2] THEN fl
        ELSE IF twice > a[2] THEN fl + 1
        ELSE IF fl % 2 = 0 THEN fl ELSE fl + 1

\* bridge_type.value.title().replace('_', ' ')
TitleOfType(bt) ==
    CASE bt = "beam" -> "Beam"
      [] bt = "truss" -> "Truss"
      [] bt = "arch" -> "Arch"
      [] bt = "suspension" -> "Suspension"
      [] bt = "cable_stayed" -> "Cable Stayed"
      [] bt = "t_beam" -> "T Beam"
      [] bt = "slab" -> "Slab"

\* material.title() for the materials the program is run with
TitleOfMaterial(m) ==
    CASE m = "steel" -> "Steel"
      [] m = "concrete" -> "Concrete"
      [] m = "stone" -> "Stone"
      [] m = "" -> ""

add_beam_bridge_to_dxf(p, span, height, width) ==
    LET deck_thickness == I(1)
        deck_y == RSub(height, deck_thickness)
        girder_depth == p.girder_depth
        num_girders == 4
        girder(i) ==
            LET x == RDiv(RMul(I(i + 1), span), I(num_girders + 1))
            IN  <<DxfLine("girder", "STRUCTURE", <<x, Zero>>, <<x, deck_y>>),
                  LwPolyline("girder_depth", "STRUCTURE",
                     <<<<RSub(x, R(3, 10)), RSub(deck_y, girder_depth)>>,
                       <<RAdd(x, R(3, 10)), RSub(deck_y, girder_depth)>>,
                       <<RAdd(x, R(3, 10)), deck_y>>,
                       <<RSub(x, R(3, 10)), deck_y>>,
                       <<RSub(x, R(3, 10)), RSub(deck_y, girder_depth)>>>>)>>
        rail_height == p.rail_height
    IN  <<LwPolyline("deck", "DECK",
             <<<<Zero, deck_y>>, <<span, deck_y>>, <<span, height>>, <<Zero, height>>,
               <<Zero, deck_y>>>>)>>
        \o Concat(Range(0, num_girders - 1, LAMBDA i : girder(i)))
        \o <<DxfLine("railing", "RAILINGS", <<Zero, height>>, <<Zero, RAdd(height, rail_height)>>),
             DxfLine("railing", "RAILINGS", <<span, height>>, <<span, RAdd(height, rail_height)>>),
             DxfLine("railing", "RAILINGS", <<Zero, RAdd(height, rail_height)>>,
                     <<span, RAdd(height, rail_height)>>)>>

add_truss_bridge_to_dxf(p, span, height, width) ==
    LET deck_y == RMul(height, R(2, 10))
        truss_top == height
        num_panels == 8
        panel_length == RDiv(span, I(num_panels))
        x(i) == RMul(I(i), panel_length)
        members(i) ==
            <<DxfLine("vertical", "STRUCTURE", <<x(i), deck_y>>, <<x(i), truss_top>>)>>
            \o (IF i < num_panels
                THEN <<DxfLine("diagonal", "STRUCTURE", <<x(i), deck_y>>, <<x(i + 1), truss_top>>),
                       DxfLine("diagonal", "STRUCTURE", <<x(i), truss_top>>, <<x(i + 1), deck_y>>)>>
                ELSE <<>>)
    IN  <<DxfLine("deck", "DECK", <<Zero, deck_y>>, <<span, deck_y>>),
          DxfLine("top_chord", "STRUCTURE", <<Zero, truss_top>>, <<span, truss_top>>),
          DxfLine("bottom_chord", "STRUCTURE", <<Zero, deck_y>>, <<span, deck_y>>)>>
        \o Concat(Range(0, num_panels, LAMBDA i : members(i)))

\* the parabolic arch of the DXF export: point i of num_segments + 1
dxf_arch_point(span, height, i) ==
    LET arch_rise == RMul(height, R(6, 10))
        num_segments == 20
        x == RDiv(RMul(I(i), span), I(num_segments))
        y == RMul(arch_rise, RSub(I(1), RSq(RSub(RDiv(RMul(I(2), x), span), I(1)))))
    IN  <<x, y>>

add_arch_bridge_to_dxf(p, span, height, width) ==
    LET deck_y == RMul(height, R(8, 10))
        num_segments == 20
    IN  <<DxfLine("deck", "DECK", <<Zero, deck_y>>, <<span, deck_y>>),
          LwPolyline("arch", "STRUCTURE",
                     Range(0, num_segments, LAMBDA i : dxf_arch_point(span, height, i)))>>

\* tower1_x, tower2_x of the DXF export
dxf_tower_xs(span) == <<RMul(span, R(25, 100)), RMul(span, R(75, 100))>>

add_suspension_bridge_to_dxf(p, span, height, width) ==
    LET tower_height == height
        deck_y == RMul(height, R(3, 10))
        tower1_x == dxf_tower_xs(span)[1]
        tower2_x == dxf_tower_xs(span)[2]
        num_points == 30
        x(i) == RDiv(RMul(I(i), span), I(num_points))
        parabola(xx) ==
            RAdd(deck_y, RMul(RMul(R(1, 10),
                    RSq(RDiv(RSub(xx, RDiv(span, I(2))), RDiv(span, I(4))))),
                    RSub(tower_height, deck_y)))
        cable_point(i) ==
            IF RLe(tower1_x, x(i)) /\ RLe(x(i), tower2_x)
            THEN <<x(i), parabola(x(i))>>
            ELSE <<x(i), tower_height>>
        hanger(i) ==
            IF RLt(tower1_x, x(i)) /\ RLt(x(i), tower2_x)
            THEN <<DxfLine("hanger", "STRUCTURE", <<x(i), deck_y>>, <<x(i), parabola(x(i))>>)>>
            ELSE <<>>
    IN  <<DxfLine("tower", "STRUCTURE", <<tower1_x, Zero>>, <<tower1_x, tower_height>>),
          DxfLine("tower", "STRUCTURE", <<tower2_x, Zero>>, <<tower2_x, tower_height>>),
          DxfLine("deck", "DECK", <<Zero, deck_y>>, <<span, deck_y>>),
          LwPolyline("main_cable", "STRUCTURE", Range(0, num_points, LAMBDA i : cable_point(i)))>>
        \o Concat(Range(1, num_points - 1, LAMBDA i : hanger(i)))

add_cable_stayed_bridge_to_dxf(p, span, height, width) ==
    LET tower_x == RDiv(span, I(2))
        tower_height == height
        deck_y == RMul(height, R(2, 10))
        num_cables == 8
        cable_top_y(i) == RMul(tower_height, RSub(I(1), R(i, num_cables + 2)))
        cables(i) ==
            <<DxfLine("cable", "STRUCTURE",
                      <<RDiv(RMul(I(i), tower_x), I(num_cables + 1)), deck_y>>,
                      <<tower_x, cable_top_y(i)>>),
              DxfLine("cable", "STRUCTURE",
                      <<RAdd(tower_x, RDiv(RMul(I(i), tower_x), I(num_cables + 1))), deck_y>>,
                      <<tower_x, cable_top_y(i)>>)>>
    IN  <<DxfLine("tower", "STRUCTURE", <<tower_x, Zero>>, <<tower_x, tower_height>>),
          DxfLine("deck", "DECK", <<Zero, deck_y>>, <<span, deck_y>>)>>
        \o Concat(Range(1, num_cables, LAMBDA i : cables(i)))

add_dimensions_to_dxf(span, height) ==
    LET dim_y == I(-5)
        dim_x == RAdd(span, I(5))
    IN  <<DxfLine("span_dimension", "DIMENSIONS", <<Zero, dim_y>>, <<span, dim_y>>),
          DxfLine("span_dimension_tick", "DIMENSIONS",
                  <<Zero, RSub(dim_y, I(1))>>, <<Zero, RAdd(dim_y, I(1))>>),
          DxfLine("span_dimension_tick", "DIMENSIONS",
                  <<span, RSub(dim_y, I(1))>>, <<span, RAdd(dim_y, I(1))>>),
          DxfLine("height_dimension", "DIMENSIONS", <<dim_x, Zero>>, <<dim_x, height>>),
          DxfLine("height_dimension_tick", "DIMENSIONS",
                  <<RSub(dim_x, I(1)), Zero>>, <<RAdd(dim_x, I(1)), Zero>>),
          DxfLine("height_dimension_tick", "DIMENSIONS",
                  <<RSub(dim_x, I(1)), height>>, <<RAdd(dim_x, I(1)), height>>)>>

add_text_to_dxf(bt, p, span) ==
    LET specs == <<<<"Span", Format0f(p.span_length)>>,
                   <<"Width", Format0f(p.deck_width)>>,
                   <<"Height", Format0f(p.height)>>,
                   <<"Material", TitleOfMaterial(p.material)>>,
                   <<"Load", Format0f(p.load_capacity)>>>>
    IN  <<DxfText("title", "TEXT", <<TitleOfType(bt), "Bridge">>, I(3),
                  <<RDiv(span, I(2)), I(-15)>>)>>
        \o Range(0, 4, LAMBDA i : DxfText("spec", "TEXT", specs[i + 1], R(15, 10),
                                          <<I(5), I(-25 - i * 3)>>))

add_bridge_elements_to_dxf(bt, p) ==
    LET span == p.span_length
        height == p.height
        width == p.deck_width
        found_width == I(8)
        found_height == p.foundation_depth
    IN  <<LwPolyline("left_foundation", "FOUNDATION",
             <<<<Zero, Zero>>, <<found_width, Zero>>, <<found_width, RNeg(found_height)>>,
               <<Zero, RNeg(found_height)>>, <<Zero, Zero>>>>),
          LwPolyline("right_foundation", "FOUNDATION",
             <<<<RSub(span, found_width), Zero>>, <<span, Zero>>, <<span, RNeg(found_height)>>,
               <<RSub(span, found_width), RNeg(found_height)>>,
               <<RSub(span, found_width), Zero>>>>)>>
        \o (CASE bt = "beam" -> add_beam_bridge_to_dxf(p, span, height, width)
              [] bt = "truss" -> add_truss_bridge_to_dxf(p, span, height, width)
              [] bt = "arch" -> add_arch_bridge_to_dxf(p, span, height, width)
              [] bt = "suspension" -> add_suspension_bridge_to_dxf(p, span, height, width)
              [] bt = "cable_stayed" -> add_cable_stayed_bridge_to_dxf(p, span, height, width)
              [] OTHER -> <<>>)
        \o add_dimensions_to_dxf(span, height)
        \o add_text_to_dxf(bt, p, span)

\* the layer table of save_as_dxf: name and colour index
DxfLayers ==
    <<<<"FOUNDATION", 2>>, <<"STRUCTURE", 1>>, <<"DECK", 3>>, <<"RAILINGS", 4>>,
      <<"DIMENSIONS", 5>>, <<"TEXT", 7>>>>

\* the document save_as_dxf builds
DxfDocument(bt, p) == [layers |-> DxfLayers, entities |-> add_bridge_elements_to_dxf(bt, p)]

(***************************************************************************)
(* BridgeDrawingGenerator: generate_drawing and save_drawing.              *)
(***************************************************************************)
\* the elevation and plan artists the typology's draw method adds
DrawElevation(bt, p) ==
    CASE bt = "beam" -> draw_beam_bridge_elevation(p)
      [] bt = "truss" -> draw_truss_bridge_elevation(p)
      [] bt = "arch" -> draw_arch_bridge_elevation(p)
      [] bt = "suspension" -> draw_suspension_bridge_elevation(p)
      [] bt = "cable_stayed" -> draw_cable_stayed_bridge_elevation(p)
      [] bt = "t_beam" -> draw_t_beam_bridge_elevation(p)
      [] bt = "slab" -> draw_slab_bridge_elevation(p)

DrawPlan(bt, p) ==
    CASE bt = "beam" -> draw_beam_bridge_plan(p)
      [] bt = "truss" -> draw_truss_bridge_plan(p)
      [] bt = "arch" -> draw_arch_bridge_plan(p)
      [] bt = "suspension" -> draw_suspension_bridge_plan(p)
      [] bt = "cable_stayed" -> draw_cable_stayed_bridge_plan(p)
      [] bt = "t_beam" -> draw_t_beam_bridge_plan(p)
      [] bt = "slab" -> draw_slab_bridge_plan(p)

\* setup_drawing: set_xlim / set_ylim accept finite limits only; the limits
\* are built from span_length, height, foundation_depth and deck_width
LimitsFinite(p) ==
    /\ IsFinite(p.span_length) /\ IsFinite(p.height)
    /\ IsFinite(p.foundation_depth) /\ IsFinite(p.deck_width)

\* the dimension texts _add_dimensions places in the elevation and in the plan
\* (generate_drawing does not call _add_dimensions)
add_dimensions_texts(p) ==
    [elevation |->
        <<[name |-> "span_dimension", text |-> Format0f(p.span_length),
           at |-> <<RDiv(p.span_length, I(2)), RAdd(p.height, I(12))>>],
          [name |-> "height_dimension", text |-> Format0f(p.height),
           at |-> <<RAdd(p.span_length, I(17)), RDiv(p.height, I(2))>>]>>,
     plan |->
        <<[name |-> "span_dimension", text |-> Format0f(p.span_length),
           at |-> <<RDiv(p.span_length, I(2)), RAdd(p.deck_width, I(4))>>],
          [name |-> "width_dimension", text |-> p.deck_width,
           at |-> <<RAdd(p.span_length, I(11)), RDiv(p.deck_width, I(2))>>]>>]

\* a dispatch whose else branch draws a beam bridge instead of raising
GenerateDrawing_FallsBackToBeam(subplots) ==
    /\ bridge_type # None /\ params # None
    /\ pc = "idle"
    /\ call' = [op |-> "generate_drawing", subplots |-> subplots]
    /\ IF subplots = "raises"
       THEN /\ raised' = "RuntimeError: subplots"
            /\ UNCHANGED <<figure, ax_elevation, ax_plan>>
       ELSE LET bt == IF Get(bridge_type) \in BridgeType THEN Get(bridge_type) ELSE "beam"
            IN  /\ figure' = Some("figure")
                /\ IF ~LimitsFinite(Get(params))
                   THEN /\ ax_elevation' = Some(EmptyAxes)
                        /\ ax_plan' = Some(EmptyAxes)
                        /\ raised' = "ValueError: Axis limits cannot be NaN or Inf"
                   ELSE /\ ax_elevation' = Some(DrawElevation(bt, Get(params)))
                        /\ ax_plan' = Some(DrawPlan(bt, Get(params)))
                        /\ raised' = "none"
    /\ UNCHANGED <<params, bridge_type, dxf, files, pc, exit_code, mapped,
                   args, examples>>

\* generate_drawing().  subplots = "raises": the plotting library fails to create
\* the figure (the exception leaves setup_drawing before self.figure is bound).
GenerateDrawing(subplots) ==
    /\ bridge_type # None /\ params # None
    /\ pc = "idle"
    /\ call' = [op |-> "generate_drawing", subplots |-> subplots]
    /\ IF subplots = "raises"
       THEN /\ raised' = "RuntimeError: subplots"
            /\ UNCHANGED <<figure, ax_elevation, ax_plan>>
       ELSE /\ figure' = Some("figure")
            /\ IF ~LimitsFinite(Get(params))
               THEN /\ ax_elevation' = Some(EmptyAxes)
                    /\ ax_plan' = Some(EmptyAxes)
                    /\ raised' = "ValueError: Axis limits cannot be NaN or Inf"
               ELSE IF Get(bridge_type) \in BridgeType
               THEN /\ ax_elevation' = Some(DrawElevation(Get(bridge_type), Get(params)))
                    /\ ax_plan' = Some(DrawPlan(Get(bridge_type), Get(params)))
                    /\ raised' = "none"
               ELSE /\ ax_elevation' = Some(EmptyAxes)
                    /\ ax_plan' = Some(EmptyAxes)
                    /\ raised' = "ValueError: Unsupported bridge type"
    /\ UNCHANGED <<params, bridge_type, dxf, files, pc, exit_code, mapped,
                   args, examples>>

\* the writes of save_drawing in program order
SaveOrder == <<"png", "svg", "pdf", "dxf">>
Selected(format, ext) == format = ext \/ format = "all"

\* the files after save_drawing(format) on a generated figure.  fault names the
\* write that fails ("none": no write fails); a failing write may leave a partial
\* file behind (partial), the writes before it are complete.
FilesAfterSave(old, format, fault, partial) ==
    LET idx(e) == CHOOSE i \in 1..4 : SaveOrder[i] = e
        failing == IF fault \in {"dxf_build", "dxf_write"} THEN "dxf" ELSE fault
        fails == fault # "none" /\ Selected(format, failing)
        done == {e \in {"png", "svg", "pdf", "dxf"} :
                    Selected(format, e) /\ (fails => idx(e) < idx(failing))}
        touched == done \cup (IF fails /\ partial /\ fault # "dxf_build" THEN {failing} ELSE {})
    IN  {f \in old : f.ext \notin touched}
        \cup {[ext |-> e, complete |-> TRUE] : e \in done}
        \cup (IF fails /\ partial /\ fault # "dxf_build"
              THEN {[ext |-> failing, complete |-> FALSE]} ELSE {})

SaveFails(format, fault) ==
    /\ fault # "none"
    /\ Selected(format, IF fault \in {"dxf_build", "dxf_write"} THEN "dxf" ELSE fault)

\* the exception a failing write leaves save_drawing with
RaisedBySave(format, fault) ==
    IF ~SaveFails(format, fault) THEN "none"
    ELSE IF fault \in {"dxf_build", "dxf_write"}
         THEN "RuntimeError: Failed to create DXF file"
         ELSE "OSError: savefig"

\* the DXF document after save_drawing: save_as_dxf builds it once the writes
\* before it succeeded and building it does not fail
DxfAfterSave(old, bt, p, format, fault) ==
    IF Selected(format, "dxf") /\ fault # "dxf_build"
       /\ (SaveFails(format, fault) => fault = "dxf_write")
    THEN Some(DxfDocument(bt, p))
    ELSE old

\* _add_text_to_dxf reads self.bridge_type.value: for a tag outside BridgeType
\* (a plain string) building the document fails once save_as_dxf is reached
EffectiveFault(bt, format, fault) ==
    IF bt \notin BridgeType /\ (~SaveFails(format, fault) \/ fault = "dxf_write")
    THEN "dxf_build"
    ELSE fault

\* save_drawing(filename, format)
SaveDrawing(format, fault, partial) ==
    /\ bridge_type # None /\ params # None
    /\ pc = "idle"
    /\ call' = [op |-> "save_drawing", format |-> format, fault |-> fault]
    /\ IF figure = None
       THEN /\ raised' = "ValueError: No drawing generated"
            /\ UNCHANGED <<files, dxf>>
       ELSE LET eff == EffectiveFault(Get(bridge_type), format, fault)
            IN  /\ files' = FilesAfterSave(files, format, eff, partial)
                /\ raised' = RaisedBySave(format, eff)
                /\ dxf' = DxfAfterSave(dxf, Get(bridge_type), Get(params), format, eff)
    /\ UNCHANGED <<params, bridge_type, figure, ax_elevation, ax_plan, pc, exit_code,
                   mapped, args, examples>>

(***************************************************************************)
(* Specification Spec: one generator per behaviour, built from a typology  *)
(* and a validated parameter record; its drawing is generated and exported *)
(* to DXF.                                                                 *)
(***************************************************************************)
MaxSupports == 30
SpanValues == {I(40), I(200), R(71, 2)}
WidthValues == {I(12), R(5, 2)}
HeightValues == {I(8), I(80), I(1)}
SupportsValues == {-1, 0, 1, 2, MaxSupports - 1, MaxSupports, MaxSupports + 1}

\* BridgeDrawingGenerator(bridge_type, parameters).__init__
InitGenerator ==
    /\ \E bt \in BridgeType, span \in SpanValues, width \in WidthValues,
          height \in HeightValues, supports \in SupportsValues :
            /\ bridge_type = Some(bt)
            /\ params = Some(BridgeParametersFields(span, width, height, supports,
                                                    I(50), "steel"))
    /\ call = [op |-> "BridgeDrawingGenerator"]
    /\ raised = "none"
    /\ figure = None
    /\ ax_elevation = None
    /\ ax_plan = None
    /\ dxf = None
    /\ files = {}
    /\ pc = "idle"
    /\ exit_code = None
    /\ mapped = NoMapped
    /\ args = None
    /\ examples = <<>>

Next ==
    \/ GenerateDrawing("ok")
    \/ SaveDrawing("dxf", "none", FALSE)

Spec == InitGenerator /\ [][Next]_vars

(***************************************************************************)
(* Specification SpecMain: the command-line entry point.  main() is        *)
(* followed statement by statement; the plotting and file layers may fail  *)
(* at any call.                                                            *)
(***************************************************************************)
\* create_example_bridges()
create_example_bridges ==
    <<[bridge_type |-> "beam", filename |-> "beam_bridge_example",
       params |-> BridgeParametersFields(I(40), I(12), I(8), 1, I(50), "concrete")],
      [bridge_type |-> "truss", filename |-> "truss_bridge_example",
       params |-> BridgeParametersFields(I(80), I(15), I(20), 0, I(75), "steel")],
      [bridge_type |-> "arch", filename |-> "arch_bridge_example",
       params |-> BridgeParametersFields(I(60), I(14), I(25), 0, I(100), "stone")],
      [bridge_type |-> "suspension", filename |-> "suspension_bridge_example",
       params |-> BridgeParametersFields(I(200), I(20), I(80), 0, I(120), "steel")],
      [bridge_type |-> "cable_stayed", filename |-> "cable_stayed_bridge_example",
       params |-> BridgeParametersFields(I(150), I(18), I(60), 0, I(100), "steel")]>>

\* the namespace parse_args() is asked to build
Namespace(bt, span, height, format, ex) ==
    [bridge_type |-> bt, span |-> span, width |-> I(12), height |-> height,
     supports |-> 1, load |-> I(50), material |-> "steel",
     output |-> "bridge_drawing", format |-> format, examples |-> ex]

ArgvValues ==
    {Namespace(bt, span, height, format, FALSE) :
        bt \in {"beam", "suspension", "pontoon"}, span \in {I(40), I(-1)},
        height \in {I(8), Zero}, format \in {"png", "dxf", "all"}}
    \cup {Namespace("beam", I(100), I(20), "png", TRUE)}

SubplotsOutcomes == {"ok", "raises"}
SaveFaults == {"none", "png", "svg", "pdf", "dxf_build", "dxf_write"}

\* the files save_drawing(filename, format) leaves under base name filename
NamedFiles(filename, fs) ==
    {[name |-> filename, ext |-> f.ext, complete |-> f.complete] : f \in fs}

InitMain ==
    /\ args \in {Some(a) : a \in ArgvValues}
    /\ examples = <<>>
    /\ call = [op |-> "main"]
    /\ raised = "none"
    /\ params = None
    /\ bridge_type = None
    /\ figure = None
    /\ ax_elevation = None
    /\ ax_plan = None
    /\ dxf = None
    /\ files = {}
    /\ pc = "parse_args"
    /\ exit_code = None
    /\ mapped = NoMapped

\* args = parser.parse_args(); if args.examples: examples = create_example_bridges()
MainParseArgs ==
    /\ pc = "parse_args"
    /\ IF Get(args).bridge_type \notin BridgeType \/ Get(args).format \notin OutputFormat
       THEN /\ raised' = "SystemExit: 2"
            /\ exit_code' = Some(2)
            /\ pc' = "exited"
            /\ UNCHANGED examples
       ELSE /\ pc' = IF Get(args).examples THEN "examples" ELSE "try"
            /\ examples' = IF Get(args).examples THEN create_example_bridges ELSE <<>>
            /\ UNCHANGED <<raised, exit_code>>
    /\ UNCHANGED <<call, params, bridge_type, figure, ax_elevation, ax_plan, dxf, files,
                   mapped, args>>

\* one iteration of `for bridge_type, params, filename in examples`
MainExample(subplots, fault, partial) ==
    /\ pc = "examples" /\ examples # <<>>
    /\ LET e == Head(examples)
       IN  /\ call' = [op |-> "main", example |-> e.filename]
           /\ bridge_type' = Some(e.bridge_type)
           /\ params' = Some(e.params)
           /\ IF subplots = "raises"
              THEN /\ raised' = "RuntimeError: subplots"
                   /\ figure' = None /\ ax_elevation' = None /\ ax_plan' = None
                   /\ dxf' = None
                   /\ pc' = "uncaught"
                   /\ UNCHANGED <<files, examples>>
              ELSE /\ figure' = Some("figure")
                   /\ ax_elevation' = Some(DrawElevation(e.bridge_type, e.params))
                   /\ ax_plan' = Some(DrawPlan(e.bridge_type, e.params))
                   /\ files' = files \cup NamedFiles(e.filename,
                                        FilesAfterSave({}, "all", fault, partial))
                   /\ dxf' = DxfAfterSave(None, e.bridge_type, e.params, "all", fault)
                   /\ raised' = RaisedBySave("all", fault)
                   /\ IF SaveFails("all", fault)
                      THEN pc' = "uncaught" /\ UNCHANGED examples
                      ELSE pc' = "examples" /\ examples' = Tail(examples)
    /\ UNCHANGED <<exit_code, mapped, args>>

\* the bare `return` after the loop: exit(None) ends the process with status 0
MainExamplesReturn ==
    /\ pc = "examples" /\ examples = <<>>
    /\ exit_code' = Some(0)
    /\ pc' = "exited"
    /\ UNCHANGED <<call, raised, params, bridge_type, figure, ax_elevation, ax_plan, dxf,
                   files, mapped, args, examples>>

\* an exception leaves main(): the interpreter prints the traceback and ends
\* the process with status 1
MainUncaught ==
    /\ pc = "uncaught"
    /\ exit_code' = Some(1)
    /\ pc' = "exited"
    /\ UNCHANGED <<call, raised, params, bridge_type, figure, ax_elevation, ax_plan, dxf,
                   files, mapped, args, examples>>

\* try: params = BridgeParameters(...); bridge_type = BridgeType(...);
\* output_format = OutputFormat(...); generator = BridgeDrawingGenerator(...)
MainBuildParameters ==
    /\ pc = "try"
    /\ LET a == Get(args)
           p == BridgeParametersFields(a.span, a.width, a.height, a.supports,
                                       a.load, a.material)
           err == PostInit(p)
       IN  /\ call' = [op |-> "main", parameters |-> p]
           /\ raised' = err
           /\ IF err = "none"
              THEN /\ params' = Some(p)
                   /\ bridge_type' = Some(a.bridge_type)
                   /\ pc' = "generate_drawing"
              ELSE /\ UNCHANGED <<params, bridge_type>>
                   /\ pc' = "except"
    /\ UNCHANGED <<figure, ax_elevation, ax_plan, dxf, files, exit_code, mapped, args,
                   examples>>

\* generator.generate_drawing()
MainGenerate(subplots) ==
    /\ pc = "generate_drawing"
    /\ IF subplots = "raises"
       THEN /\ raised' = "RuntimeError: subplots"
            /\ pc' = "except"
            /\ UNCHANGED <<figure, ax_elevation, ax_plan>>
       ELSE /\ figure' = Some("figure")
            /\ ax_elevation' = Some(DrawElevation(Get(bridge_type), Get(params)))
            /\ ax_plan' = Some(DrawPlan(Get(bridge_type), Get(params)))
            /\ pc' = "save_drawing"
            /\ UNCHANGED raised
    /\ UNCHANGED <<call, params, bridge_type, dxf, files, exit_code, mapped, args, examples>>

\* generator.save_drawing(args.output, output_format)
MainSave(fault, partial) ==
    /\ pc = "save_drawing"
    /\ LET a == Get(args)
       IN  /\ files' = files \cup NamedFiles(a.output,
                                FilesAfterSave({}, a.format, fault, partial))
           /\ dxf' = DxfAfterSave(dxf, Get(bridge_type), Get(params), a.format, fault)
           /\ raised' = RaisedBySave(a.format, fault)
           /\ pc' = IF SaveFails(a.format, fault) THEN "except" ELSE "return"
    /\ UNCHANGED <<call, params, bridge_type, figure, ax_elevation, ax_plan, exit_code,
                   mapped, args, examples>>

\* an except clause that reports the error and falls through to `return 0`
MainExceptFallsThrough ==
    /\ pc = "except"
    /\ exit_code' = Some(0)
    /\ pc' = "exited"
    /\ UNCHANGED <<call, raised, params, bridge_type, figure, ax_elevation, ax_plan, dxf,
                   files, mapped, args, examples>>

\* except Exception as e: print(...); return 1
MainExcept ==
    /\ pc = "except"
    /\ exit_code' = Some(1)
    /\ pc' = "exited"
    /\ UNCHANGED <<call, raised, params, bridge_type, figure, ax_elevation, ax_plan, dxf,
                   files, mapped, args, examples>>

\* return 0
MainReturn ==
    /\ pc = "return"
    /\ exit_code' = Some(0)
    /\ pc' = "exited"
    /\ UNCHANGED <<call, raised, params, bridge_type, figure, ax_elevation, ax_plan, dxf,
                   files, mapped, args, examples>>

NextMain ==
    \/ MainParseArgs
    \/ \E subplots \in SubplotsOutcomes, fault \in SaveFaults, partial \in BOOLEAN :
          MainExample(subplots, fault, partial)
    \/ MainExamplesReturn
    \/ MainUncaught
    \/ MainBuildParameters
    \/ \E subplots \in SubplotsOutcomes : MainGenerate(subplots)
    \/ \E fault \in SaveFaults, partial \in BOOLEAN : MainSave(fault, partial)
    \/ MainExcept
    \/ MainReturn

SpecMain == InitMain /\ [][NextMain]_vars

\* the files main() was asked to write
RequestedFiles ==
    IF Get(args).examples
    THEN {[name |-> create_example_bridges[i].filename, ext |-> e, complete |-> TRUE] :
             i \in 1..Len(create_example_bridges), e \in {"png", "svg", "pdf", "dxf"}}
    ELSE {[name |-> Get(args).output, ext |-> e, complete |-> TRUE] :
             e \in {x \in {"png", "svg", "pdf", "dxf"} : Selected(Get(args).format, x)}}

\* C2: when main() has ended, the exit status is 0 exactly when no call
\* failed, and then every requested drawing file is complete on disk; when
\* argument or parameter validation, generation or a file write failed, on
\* the single-bridge path or on the --examples path, the exit status is
\* non-zero and a requested file is missing or incomplete.
C2_ExitCode ==
    pc = "exited" =>
        /\ exit_code # None
        /\ (raised = "none") <=> (exit_code = Some(0))
        /\ (exit_code = Some(0)) <=> (RequestedFiles \subseteq files)

\* --examples: the beam example has been saved, a later example failed, and
\* the process ended with status 1
C2_Witness_ExampleFailed ==
    /\ pc = "exited"
    /\ Get(args).examples
    /\ raised # "none"
    /\ exit_code = Some(1)
    /\ [name |-> "beam_bridge_example", ext |-> "dxf", complete |-> TRUE] \in files

(***************************************************************************)
(* Specification SpecLifecycle: one generator, possibly built with a tag   *)
(* outside BridgeType, on which generate_drawing and save_drawing are      *)
(* called in any order and any number of times, with the plotting and file *)
(* layers free to fail.                                                    *)
(***************************************************************************)
LifecycleTypes == {"beam", "suspension", "slab", "pontoon"}
LifecycleFormats == {"png", "dxf", "all"}
LifecycleFaults == {"none", "png", "dxf_build", "dxf_write"}

InitLifecycle ==
    /\ \E bt \in LifecycleTypes, supports \in {0, 1} :
            /\ bridge_type = Some(bt)
            /\ params = Some(BridgeParametersFields(I(40), I(12), I(8), supports,
                                                    I(50), "steel"))
    /\ call = [op |-> "BridgeDrawingGenerator"]
    /\ raised = "none"
    /\ figure = None
    /\ ax_elevation = None
    /\ ax_plan = None
    /\ dxf = None
    /\ files = {}
    /\ pc = "idle"
    /\ exit_code = None
    /\ mapped = NoMapped
    /\ args = None
    /\ examples = <<>>

NextLifecycle ==
    \/ \E subplots \in SubplotsOutcomes : GenerateDrawing(subplots)
    \/ \E format \in LifecycleFormats, fault \in LifecycleFaults, partial \in BOOLEAN :
          SaveDrawing(format, fault, partial)

SpecLifecycle == InitLifecycle /\ [][NextLifecycle]_vars

(***************************************************************************)
(* Specification SpecValidated: a parameter record is constructed from     *)
(* floats, infinity included; when the constructor accepts it a generator  *)
(* is built on it and draws.                                               *)
(***************************************************************************)
ValidatedSpans == {I(40), PosInf, Zero}
ValidatedHeights == {I(8), PosInf}
ValidatedSupports == {-1, 1}

\* params = BridgeParameters(...); generator = BridgeDrawingGenerator(bt, params)
NewValidatedGenerator(bt, span, height, supports) ==
    LET p == BridgeParametersFields(span, I(12), height, supports, I(50), "steel")
        err == PostInit(p)
    IN  /\ bridge_type = None
        /\ call' = [op |-> "BridgeParameters", args |-> p]
        /\ raised' = err
        /\ params' = IF err = "none" THEN Some(p) ELSE params
        /\ bridge_type' = IF err = "none" THEN Some(bt) ELSE bridge_type
        /\ UNCHANGED <<figure, ax_elevation, ax_plan, dxf, files, pc, exit_code,
                       mapped, args, examples>>

NextValidated ==
    \/ \E bt \in BridgeType, span \in ValidatedSpans, height \in ValidatedHeights,
          supports \in ValidatedSupports :
            NewValidatedGenerator(bt, span, height, supports)
    \/ GenerateDrawing("ok")

SpecValidated == InitIdle /\ [][NextValidated]_vars

\* C15: for every supported typology and every parameter record the
\* constructor accepted, generate_drawing completes without raising.
C15_GenerateNeverRaises ==
    (call.op = "generate_drawing" /\ call.subplots = "ok"
        /\ Get(bridge_type) \in BridgeType /\ Validated(Get(params))) =>
        raised = "none"

(***************************************************************************)
(* Properties of the generated drawings.                                   *)
(***************************************************************************)
Named(artists, name) == SelectSeq(artists, LAMBDA a : a.name = name)
CentreX(rect) == RAdd(rect.x, RDiv(rect.w, I(2)))
Generated(bt) == bridge_type = Some(bt) /\ ax_elevation # None /\ ax_plan # None
Exported(bt) == bridge_type = Some(bt) /\ dxf # None

\* C5: the plan view of the Beam typology and of the Slab typology draws
\* exactly one deck rectangle; its origin is (0, 0), its width is the span,
\* its height is the deck width, so its area is span x deckWidth.
C5_PlanDeckRectangle ==
    \A bt \in {"beam", "slab"} :
        Generated(bt) =>
            LET p == Get(params)
                decks == Named(Get(ax_plan).patches,
                               IF bt = "beam" THEN "deck_plan" ELSE "slab_plan")
            IN  /\ Len(decks) = 1
                /\ decks[1].x = Zero /\ decks[1].y = Zero
                /\ decks[1].w = p.span_length
                /\ decks[1].h = p.deck_width
                /\ RMul(decks[1].w, decks[1].h) = RMul(p.span_length, p.deck_width)

\* a Beam plan of a 35.5 x 2.5 deck has been drawn
C5_Witness_BeamPlan ==
    /\ Generated("beam")
    /\ Get(params).span_length = R(71, 2) /\ Get(params).deck_width = R(5, 2)
    /\ Len(Named(Get(ax_plan).patches, "deck_plan")) = 1

PierCount == Len(Named(Get(ax_elevation).patches, "pier"))

\* C6 as written: in Beam, T-Beam and Slab elevations the number of piers
\* equals supportCount for every supportCount >= 0, 30 and above included.
C6_PierCountEqualsSupports ==
    \A bt \in {"beam", "t_beam", "slab"} :
        (Generated(bt) /\ Get(params).supports >= 0) =>
            PierCount = Get(params).supports

\* C6: the Beam elevation draws max(0, supportCount) piers; the T-Beam and
\* Slab elevations draw min(max(0, supportCount), 29) piers, one at each
\* interior boundary of at most 30 sub-spans.
C6_PierCount ==
    /\ Generated("beam") => PierCount = IMax(0, Get(params).supports)
    /\ \A bt \in {"t_beam", "slab"} :
          Generated(bt) =>
              PierCount = (IF Get(params).supports > 29 THEN 29
                           ELSE IMax(0, Get(params).supports))

\* a T-Beam elevation asked for 30 supports has 29 piers
C6_Witness_Capped ==
    /\ Generated("t_beam")
    /\ Get(params).supports = MaxSupports
    /\ PierCount = 29

\* C7: a Beam elevation has exactly one deck rectangle, spanning x in
\* [0, span]; exactly two abutment rectangles, centred on x = 0 and on
\* x = span; and supportCount pier rectangles whose centrelines are at
\* i * span / (supportCount + 1), i = 1..supportCount, each strictly between
\* the abutments (no pier when supportCount <= 0).
C7_BeamElevationLayout ==
    Generated("beam") =>
        LET p == Get(params)
            el == Get(ax_elevation)
            decks == Named(el.patches, "deck")
            abutments == Named(el.patches, "abutment")
            piers == Named(el.patches, "pier")
        IN  /\ Len(decks) = 1
            /\ decks[1].x = Zero /\ RAdd(decks[1].x, decks[1].w) = p.span_length
            /\ Len(abutments) = 2
            /\ CentreX(abutments[1]) = Zero
            /\ CentreX(abutments[2]) = p.span_length
            /\ Len(piers) = IMax(0, p.supports)
            /\ \A i \in 1..Len(piers) :
                  /\ CentreX(piers[i]) = RDiv(RMul(I(i), p.span_length), I(p.supports + 1))
                  /\ RLt(Zero, CentreX(piers[i]))
                  /\ RLt(CentreX(piers[i]), p.span_length)

\* the 40 x 12 x 8 Beam bridge with one support has its pier on x = 20
C7_Witness_OnePier ==
    /\ Generated("beam")
    /\ Get(params).span_length = I(40) /\ Get(params).deck_width = I(12)
    /\ Get(params).height = I(8) /\ Get(params).supports = 1
    /\ Len(Named(Get(ax_elevation).patches, "pier")) = 1
    /\ CentreX(Named(Get(ax_elevation).patches, "pier")[1]) = I(20)

\* C8: a Suspension bridge has exactly two towers, at 0.2 * span and at
\* 0.8 * span, in its elevation, in its plan and in its DXF export.
C8_TowersAtFifths ==
    bridge_type = Some("suspension") =>
        LET p == Get(params)
            want == <<RMul(p.span_length, R(2, 10)), RMul(p.span_length, R(8, 10))>>
        IN  /\ ax_elevation # None =>
                LET t == Named(Get(ax_elevation).patches, "tower")
                IN  Len(t) = 2 /\ \A k \in 1..2 : CentreX(t[k]) = want[k]
            /\ ax_plan # None =>
                LET t == Named(Get(ax_plan).patches, "tower_plan")
                IN  Len(t) = 2 /\ \A k \in 1..2 : CentreX(t[k]) = want[k]
            /\ dxf # None =>
                LET t == Named(Get(dxf).entities, "tower")
                IN  Len(t) = 2 /\ \A k \in 1..2 :
                        t[k].points[1][1] = want[k] /\ t[k].points[2][1] = want[k]

\* C9: the ordinate of the Suspension elevation's main cable equals
\* deck_y + 0.3 * height at midspan (where the tenth hanger meets it) and is
\* strictly smaller at every other abscissa at which the cable is evaluated
\* between the towers (the 100 plotted samples and the other hangers).
C9_MainCableMaximum ==
    Generated("suspension") =>
        LET p == Get(params)
            el == Get(ax_elevation)
            mid == RDiv(p.span_length, I(2))
            top == RAdd(RMul(p.height, R(4, 10)), RMul(p.height, R(3, 10)))
            cable == Named(el.lines, "main_cable")[1]
            hangers == Named(el.lines, "hanger")
        IN  /\ \E k \in 1..Len(hangers) :
                  hangers[k].xs[1] = mid /\ hangers[k].ys[2] = top
            /\ \A k \in 1..Len(hangers) :
                  hangers[k].xs[1] # mid => RLt(hangers[k].ys[2], top)
            /\ Len(cable.xs) = 100
            /\ \A k \in 1..Len(cable.xs) :
                  IF cable.xs[k] = mid THEN cable.ys[k] = top
                  ELSE RLt(cable.ys[k], top)

\* a 200 x 80 Suspension elevation: the hanger on x = 100 reaches y = 56
C9_Witness_MidspanHanger ==
    /\ Generated("suspension")
    /\ Get(params).span_length = I(200) /\ Get(params).height = I(80)
    /\ \E k \in 1..Len(Named(Get(ax_elevation).lines, "hanger")) :
          LET h == Named(Get(ax_elevation).lines, "hanger")[k]
          IN  h.xs[1] = I(100) /\ h.ys[2] = I(56)

\* C10: the arch is symmetric about the middle of its sub-span.  In the
\* elevation, the 100 samples of every sub-span pair up (k with 99 - k) at
\* offsets d and L - d from the sub-span start with equal outer and inner
\* ordinates; in the DXF export, vertex i and vertex 20 - i of the parabola
\* are at x and span - x with equal y.
C10_ArchSymmetry ==
    /\ Generated("arch") =>
          LET p == Get(params)
              arches == Get(ax_elevation).collections
              L == RDiv(p.span_length, I(Len(arches)))
          IN  \A s \in 1..Len(arches) :
                  LET a == arches[s]
                      start == RMul(I(s - 1), L)
                  IN  /\ Len(a.x) = 100
                      /\ \A j \in 1..100 :
                            /\ RAdd(RSub(a.x[j], start), RSub(a.x[101 - j], start)) = L
                            /\ a.y1[j] = a.y1[101 - j]
                            /\ a.y2[j] = a.y2[101 - j]
    /\ Exported("arch") =>
          LET pts == Named(Get(dxf).entities, "arch")[1].points
          IN  /\ Len(pts) = 21
              /\ \A i \in 1..21 :
                    /\ pts[i][2] = pts[22 - i][2]
                    /\ RAdd(pts[i][1], pts[22 - i][1]) = Get(params).span_length

\* a three-span arch has been drawn and exported; its DXF crown is 0.6 * height
\* above the springings
C10_Witness_ThreeSpans ==
    /\ Generated("arch") /\ Exported("arch")
    /\ Get(params).supports = 2
    /\ Len(Get(ax_elevation).collections) = 3
    /\ Named(Get(dxf).entities, "arch")[1].points[11][2] = RMul(Get(params).height, R(6, 10))
    /\ Named(Get(dxf).entities, "arch")[1].points[1][2] = Zero

(***************************************************************************)
(* Properties of the DXF export.                                           *)
(***************************************************************************)
OnLayer(entities, layer) == SelectSeq(entities, LAMBDA e : e.layer = layer)
PrimitiveCount(ax) == Len(ax.patches) + Len(ax.lines) + Len(ax.collections) + Len(ax.texts)

\* C11: the DXF document holds, layer by layer, as many entities as the
\* generated drawing holds primitives; summed over the layers, the document
\* has as many entities as the elevation and plan together have primitives.
C11_DxfEntityCountMatchesDrawing ==
    \A bt \in BridgeType :
        (Generated(bt) /\ Exported(bt)) =>
            Len(Get(dxf).entities)
                = PrimitiveCount(Get(ax_elevation)) + PrimitiveCount(Get(ax_plan))

\* C12: in every DXF document, each entity names one layer, and that layer
\* is declared in the document's layer table; the table declares FOUNDATION,
\* STRUCTURE, DECK, RAILINGS, DIMENSIONS and TEXT once each, with the colour
\* indices 2, 1, 3, 4, 5 and 7 in every document.
C12_LayersDeclaredAndStable ==
    dxf # None =>
        LET doc == Get(dxf)
            declared == {doc.layers[i][1] : i \in 1..Len(doc.layers)}
        IN  /\ \A i \in 1..Len(doc.entities) : doc.entities[i].layer \in declared
            /\ declared = {"FOUNDATION", "STRUCTURE", "DECK", "RAILINGS", "DIMENSIONS", "TEXT"}
            /\ Len(doc.layers) = Cardinality(declared)
            /\ \A i \in 1..Len(doc.layers) :
                  doc.layers[i][2] =
                      (CASE doc.layers[i][1] = "FOUNDATION" -> 2
                         [] doc.layers[i][1] = "STRUCTURE" -> 1
                         [] doc.layers[i][1] = "DECK" -> 3
                         [] doc.layers[i][1] = "RAILINGS" -> 4
                         [] doc.layers[i][1] = "DIMENSIONS" -> 5
                         [] doc.layers[i][1] = "TEXT" -> 7)

\* a Beam document with entities on each of the six layers
C12_Witness_BeamDocument ==
    /\ Exported("beam")
    /\ \A l \in {"FOUNDATION", "STRUCTURE", "DECK", "RAILINGS", "DIMENSIONS", "TEXT"} :
          Len(OnLayer(Get(dxf).entities, l)) > 0

\* the dimension lines of a document: the measured lines, without their ticks
DimensionLines(doc) ==
    SelectSeq(doc.entities, LAMBDA e :
        e.type = "LINE" /\ e.name \in {"span_dimension", "height_dimension"})

\* C13: every dimension of a DXF document is a line entity paired with a
\* text entity that labels it; the document holds no native DIMENSION
\* entity, and no dimension line is without its text on the DIMENSIONS layer.
C13_DimensionsAreLineTextPairs ==
    dxf # None =>
        LET doc == Get(dxf)
            labels == SelectSeq(doc.entities, LAMBDA e :
                          e.type = "TEXT" /\ e.layer = "DIMENSIONS")
        IN  /\ \A i \in 1..Len(doc.entities) : doc.entities[i].type # "DIMENSION"
            /\ Len(labels) = Len(DimensionLines(doc))

(***************************************************************************)
(* Properties of the generator's life cycle.                               *)
(***************************************************************************)
Occurrences(seq, x) == Len(SelectSeq(seq, LAMBDA y : y = x))

\* C14: whenever save_drawing has written its outputs, the figure it saved
\* carries each dimension text of the dimension builder exactly once in the
\* elevation and in the plan, and the DXF document it wrote carries exactly
\* one span dimension line and one height dimension line.
C14_DimensionsExactlyOnce ==
    (call.op = "save_drawing" /\ raised = "none" /\ Get(bridge_type) \in BridgeType) =>
        LET want == add_dimensions_texts(Get(params))
        IN  /\ (\E e \in {"png", "svg", "pdf"} : Selected(call.format, e)) =>
                /\ \A i \in 1..2 :
                      Occurrences(Get(ax_elevation).texts, want.elevation[i]) = 1
                /\ \A i \in 1..2 :
                      Occurrences(Get(ax_plan).texts, want.plan[i]) = 1
            /\ Selected(call.format, "dxf") =>
                /\ Len(Named(Get(dxf).entities, "span_dimension")) = 1
                /\ Len(Named(Get(dxf).entities, "height_dimension")) = 1

C17_NoPartialDxfAfterFailure ==
    (call.op = "save_drawing" /\ figure # None /\ Selected(call.format, "dxf")
        /\ call.fault \in {"dxf_build", "dxf_write"}) =>
        /\ raised = "RuntimeError: Failed to create DXF file"
        /\ \A f \in files : f.ext = "dxf" => f.complete


(***************************************************************************)
(* cad_utils.py: BridgeCADUtils, the builders of a CAD document's tables   *)
(* and model space.  The ezdxf calls are the environment: a call either    *)
(* succeeds or raises, chosen by the `fail` input of each builder; a table *)
(* also rejects a name it already holds.  The document is kept in `dxf`,   *)
(* the value returned to the caller in call.result, the warnings printed   *)
(* in call.warnings and an exception leaving the builder in `raised`.      *)
(***************************************************************************)
MaxCadEntities == 1

layer_definitions ==
    << <<"0-DEFPOINTS", 7, "CONTINUOUS">>, <<"GRID-MAJOR", 8, "CONTINUOUS">>,
       <<"GRID-MINOR", 253, "DASHED2">>, <<"AXIS-CENTER", 4, "CENTER">>,
       <<"STRUCTURE-CONCRETE", 1, "CONTINUOUS">>,
       <<"STRUCTURE-STEEL", 2, "CONTINUOUS">>,
       <<"REINFORCEMENT", 3, "CONTINUOUS">>, <<"DIMENSIONS", 6, "CONTINUOUS">>,
       <<"TEXT-LARGE", 3, "CONTINUOUS">>, <<"TEXT-MEDIUM", 2, "CONTINUOUS">>,
       <<"TEXT-SMALL", 8, "CONTINUOUS">>,
       <<"HATCHING-CONCRETE", 9, "CONTINUOUS">>,
       <<"HATCHING-STEEL", 1, "CONTINUOUS">>,
       <<"HATCHING-EARTH", 30, "CONTINUOUS">>, <<"DETAILS", 2, "CONTINUOUS">>,
       <<"SYMBOL", 5, "CONTINUOUS">>, <<"HIDDEN", 8, "HIDDEN">>,
       <<"PHANTOM", 6, "PHANTOM">>, <<"BORDER", 7, "CONTINUOUS">>,
       <<"TITLE-BLOCK", 7, "CONTINUOUS">> >>

text_styles ==
    <<"TITLE", "SUBTITLE", "STANDARD", "SMALL", "DIMENSION", "ANNOTATION">>

EmptyCadDocument ==
    [layers |-> <<>>, styles |-> <<>>, dimstyles |-> <<>>, entities |-> <<>>]

TableNames(table) == {table[k].name : k \in 1..Len(table)}

\* for name, color, linetype, description in layer_definitions: try
\* doc.layers.new(name=name) ... except Exception: print a warning and go on
\* with the next layer; return created_layers.
create_professional_layers(fail) ==
    LET doc == Get(dxf)
        Rejected(d) == d[1] \in fail \/ d[1] \in TableNames(doc.layers)
        created == SelectSeq(layer_definitions, LAMBDA d : ~Rejected(d))
        failed == SelectSeq(layer_definitions, Rejected)
    IN  /\ dxf # None
        /\ dxf' = Some([doc EXCEPT !.layers = @ \o
                [k \in 1..Len(created) |->
                    [name |-> created[k][1], color |-> created[k][2],
                     linetype |-> created[k][3]]]])
        /\ call' = [op |-> "create_professional_layers",
                    result |-> Some([k \in 1..Len(created) |-> created[k][1]]),
                    warnings |-> [k \in 1..Len(failed) |-> failed[k][1]]]
        /\ raised' = "none"
        /\ UNCHANGED <<params, bridge_type, figure, ax_elevation, ax_plan,
                       files, pc, exit_code, mapped, args, examples>>

\* for style_name, font, height, width in text_styles: try
\* doc.styles.new(style_name, ...) except Exception: print a warning and go
\* on; return created_styles.
create_text_styles(fail) ==
    LET doc == Get(dxf)
        Rejected(n) == n \in fail \/ n \in TableNames(doc.styles)
        created == SelectSeq(text_styles, LAMBDA n : ~Rejected(n))
        failed == SelectSeq(text_styles, Rejected)
    IN  /\ dxf # None
        /\ dxf' = Some([doc EXCEPT !.styles = @ \o
                [k \in 1..Len(created) |->
                    [name |-> created[k], font |-> "Arial.ttf"]]])
        /\ call' = [op |-> "create_text_styles", result |-> Some(created),
                    warnings |-> failed]
        /\ raised' = "none"
        /\ UNCHANGED <<params, bridge_type, figure, ax_elevation, ax_plan,
                       files, pc, exit_code, mapped, args, examples>>

\* One try around both doc.dimstyles.new calls: the first failure prints a
\* warning and returns {}; a style created before the failure stays in the
\* document.
create_dimension_styles(fail) ==
    LET doc == Get(dxf)
        Rejected(n) == n \in fail \/ n \in TableNames(doc.dimstyles)
        style(n) == [name |-> n, dimtxsty |-> "STANDARD"]
        added == IF Rejected("PROFESSIONAL") THEN <<>>
                 ELSE IF Rejected("ARCHITECTURAL")
                      THEN <<style("PROFESSIONAL")>>
                      ELSE <<style("PROFESSIONAL"), style("ARCHITECTURAL")>>
        failed == IF Rejected("PROFESSIONAL") THEN <<"PROFESSIONAL">>
                  ELSE IF Rejected("ARCHITECTURAL") THEN <<"ARCHITECTURAL">>
                       ELSE <<>>
    IN  /\ dxf # None
        /\ dxf' = Some([doc EXCEPT !.dimstyles = @ \o added])
        /\ call' = [op |-> "create_dimension_styles",
                    result |-> Some(IF failed = <<>>
                                    THEN <<"PROFESSIONAL", "ARCHITECTURAL">>
                                    ELSE <<>>),
                    warnings |-> failed]
        /\ raised' = "none"
        /\ UNCHANGED <<params, bridge_type, figure, ax_elevation, ax_plan,
                       files, pc, exit_code, mapped, args, examples>>

\* try: hatch = msp.add_hatch(...); hatch.paths.add_polyline_path(...);
\* hatch.set_pattern_fill("ANSI31", ...); return hatch
\* except Exception: print a warning; return None.  `fail` names the ezdxf
\* call that raises; the hatch added before it stays in the model space.
add_concrete_hatch(fail) ==
    LET doc == Get(dxf)
        hatch(path, pattern) ==
            [type |-> "HATCH", layer |-> "HATCHING-CONCRETE", color |-> 9,
             paths |-> path, pattern |-> pattern]
        added ==
            CASE fail = "add_hatch" -> <<>>
              [] fail = "add_polyline_path" -> <<hatch(0, None)>>
              [] fail = "set_pattern_fill" -> <<hatch(1, None)>>
              [] OTHER -> <<hatch(1, Some("ANSI31"))>>
    IN  /\ dxf # None
        /\ Len(doc.entities) < MaxCadEntities
        /\ dxf' = Some([doc EXCEPT !.entities = @ \o added])
        /\ call' = [op |-> "add_concrete_hatch",
                    result |-> IF fail = "none" THEN Some(<<"HATCH">>)
                               ELSE None,
                    warnings |-> IF fail = "none" THEN <<>> ELSE <<fail>>]
        /\ raised' = "none"
        /\ UNCHANGED <<params, bridge_type, figure, ax_elevation, ax_plan,
                       files, pc, exit_code, mapped, args, examples>>

\* try: circle = msp.add_circle(...); msp.add_line(...); msp.add_line(...);
\* return circle except Exception: print a warning; return None.
draw_reinforcement_symbol(fail) ==
    LET doc == Get(dxf)
        entity(t) == [type |-> t, layer |-> "REINFORCEMENT"]
        added ==
            CASE fail = "add_circle" -> <<>>
              [] fail = "add_line_1" -> <<entity("CIRCLE")>>
              [] fail = "add_line_2" -> <<entity("CIRCLE"), entity("LINE")>>
              [] OTHER -> <<entity("CIRCLE"), entity("LINE"), entity("LINE")>>
    IN  /\ dxf # None
        /\ Len(doc.entities) < MaxCadEntities
        /\ dxf' = Some([doc EXCEPT !.entities = @ \o added])
        /\ call' = [op |-> "draw_reinforcement_symbol",
                    result |-> IF fail = "none" THEN Some(<<"CIRCLE">>)
                               ELSE None,
                    warnings |-> IF fail = "none" THEN <<>> ELSE <<fail>>]
        /\ raised' = "none"
        /\ UNCHANGED <<params, bridge_type, figure, ax_elevation, ax_plan,
                       files, pc, exit_code, mapped, args, examples>>

\* The ezdxf calls the environment lets fail in one builder call.
CadFaults ==
    {{}, {"GRID-MINOR", "TITLE"}, {"ARCHITECTURAL"}}

InitCadUtils ==
    /\ call = NoCall
    /\ raised = "none"
    /\ params = None
    /\ bridge_type = None
    /\ figure = None
    /\ ax_elevation = None
    /\ ax_plan = None
    /\ dxf = Some(EmptyCadDocument)
    /\ files = {}
    /\ pc = "idle"
    /\ exit_code = None
    /\ mapped = NoMapped
    /\ args = None
    /\ examples = <<>>

NextCadUtils ==
    \/ \E fail \in CadFaults : create_professional_layers(fail)
    \/ \E fail \in CadFaults : create_text_styles(fail)
    \/ \E fail \in CadFaults : create_dimension_styles(fail)
    \/ \E fail \in {"none", "add_hatch", "add_polyline_path",
                     "set_pattern_fill"} : add_concrete_hatch(fail)
    \/ \E fail \in {"none", "add_circle", "add_line_1", "add_line_2"} :
            draw_reinforcement_symbol(fail)

SpecCadUtils == InitCadUtils /\ [][NextCadUtils]_vars

\* C18: whenever a step of building the CAD document failed (a layer, a
\* text style, a dimension style, a hatch or a symbol could not be
\* created), the builder reports an explicit error to its caller instead of
\* swallowing the failure.
C18_BuildFailuresAreReported ==
    (call.op \in {"create_professional_layers", "create_text_styles",
                  "create_dimension_styles", "add_concrete_hatch",
                  "draw_reinforcement_symbol"}
        /\ call.warnings # <<>>)
    => raised # "none"


\* The deck-side ends of the stay cables drawn on one axes.
CableDeckXs(ax) ==
    LET cables == Named(ax.lines, "cable")
    IN  {cables[k].xs[2] : k \in 1..Len(cables)}

\* C19: in a Cable-Stayed drawing every stay cable meets the deck at an x
\* in [0, span_length], in the elevation and in the plan, whatever the
\* number of supports (30 and more included).
C19_CableEndsOnDeck ==
    Generated("cable_stayed") =>
        \A x \in CableDeckXs(Get(ax_elevation)) \cup CableDeckXs(Get(ax_plan)) :
            RLe(Zero, x) /\ RLe(x, Get(params).span_length)

\* C20: a Cable-Stayed elevation has one tower per intermediate support:
\* as many towers as supports, tower k centred on k * span_length /
\* min(max(1, supports + 1), 30), and every tower between the two end
\* abutments (0 <= x <= span_length).
C20_TowerPerSupport ==
    (Generated("cable_stayed") /\ Get(params).supports >= 0) =>
        LET p == Get(params)
            t == Named(Get(ax_elevation).patches, "tower")
            n == IMax(1, p.supports + 1)
            sub == RDiv(p.span_length, I(IF n <= 30 THEN n ELSE 30))
        IN  /\ Len(t) = p.supports
            /\ \A k \in 1..Len(t) :
                /\ CentreX(t[k]) = RMul(I(k), sub)
                /\ RLe(Zero, CentreX(t[k]))
                /\ RLe(CentreX(t[k]), p.span_length)


\* Sub-spans and panels per sub-span as the truss layout states them.
SubSpans(p) == LET n == IMax(1, p.supports + 1) IN IF n <= 30 THEN n ELSE 30
PanelsPerSubSpan(p) ==
    IMax(4, PyInt(RDiv(RDiv(p.span_length, I(SubSpans(p))), I(10))))

\* C21: the truss web has max(4, floor(subSpanLength / 10)) panels per
\* sub-span and exactly one diagonal per panel, rising from the bottom
\* chord to the top chord on even panels and falling from the top chord to
\* the bottom chord on odd panels, in the elevation and in the DXF export.
C21_TrussZigZag ==
    /\ Generated("truss") =>
        LET p == Get(params)
            l == Get(ax_elevation).lines
            d == Named(l, "diagonal")
            bottom == Named(l, "bottom_chord")[1].ys[1]
            top == Named(l, "top_chord")[1].ys[1]
            panels == PanelsPerSubSpan(p)
        IN  /\ Len(d) = SubSpans(p) * panels
            /\ \A k \in 1..Len(d) :
                IF ((k - 1) % panels) % 2 = 0
                THEN d[k].ys = <<bottom, top>>
                ELSE d[k].ys = <<top, bottom>>
    /\ Exported("truss") =>
        LET p == Get(params)
            e == Get(dxf).entities
            d == Named(e, "diagonal")
            bottom == Named(e, "bottom_chord")[1].points[1][2]
            top == Named(e, "top_chord")[1].points[1][2]
            panels == PanelsPerSubSpan(p)
        IN  /\ Len(d) = SubSpans(p) * panels
            /\ \A k \in 1..Len(d) :
                IF ((k - 1) % panels) % 2 = 0
                THEN d[k].points[1][2] = bottom /\ d[k].points[2][2] = top
                ELSE d[k].points[1][2] = top /\ d[k].points[2][2] = bottom


\* The cable line `c` is at height `top` at x = tower and below it at the
\* bridge end x = anchor.
RunsDownFromTower(c, tower, anchor, top) ==
    /\ \E k \in 1..Len(c.xs) : c.xs[k] = tower
    /\ \E k \in 1..Len(c.xs) : c.xs[k] = anchor
    /\ \A k \in 1..Len(c.xs) :
        /\ c.xs[k] = tower => c.ys[k] = top
        /\ c.xs[k] = anchor => RLt(c.ys[k], top)

\* C22: each side-span cable of a Suspension elevation starts at the tower
\* top (y = tower height at the tower's x) and runs down to the anchorage
\* at the adjacent bridge end (x = 0 on the left, x = span_length on the
\* right).
C22_SideCablesFromTowerTop ==
    Generated("suspension") =>
        LET p == Get(params)
            l == Get(ax_elevation).lines
        IN  /\ RunsDownFromTower(Named(l, "side_cable_left")[1],
                    RMul(p.span_length, R(2, 10)), Zero, p.height)
            /\ RunsDownFromTower(Named(l, "side_cable_right")[1],
                    RMul(p.span_length, R(8, 10)), p.span_length, p.height)


\* C23: a Slab elevation with more than one sub-span has one expansion
\* joint per intermediate support: as many joints as piers (sub-spans - 1),
\* joint i centred on i * subSpanLength, the centreline of pier i; with a
\* single sub-span there is neither joint nor pier.
C23_JointPerSupport ==
    Generated("slab") =>
        LET p == Get(params)
            joints == Named(Get(ax_elevation).patches, "joint")
            piers == Named(Get(ax_elevation).patches, "pier")
            sub == RDiv(p.span_length, I(SubSpans(p)))
        IN  /\ Len(joints) = SubSpans(p) - 1
            /\ Len(piers) = Len(joints)
            /\ \A i \in 1..Len(joints) :
                /\ CentreX(joints[i]) = RMul(I(i), sub)
                /\ CentreX(piers[i]) = CentreX(joints[i])

C23_Witness_TwoJoints ==
    /\ Generated("slab")
    /\ Get(params).span_length = I(40) /\ Get(params).supports = 2
    /\ Len(Named(Get(ax_elevation).patches, "joint")) = 2
    /\ CentreX(Named(Get(ax_elevation).patches, "joint")[2]) = R(80, 3)


(***************************************************************************)
(* enhanced_bridge_app.py: EnhancedBridgeDrawer.draw_enhanced_grid, one    *)
(* action per loop iteration.  `call` holds the arguments and the two loop *)
(* variables, `pc` the position in the method, `dxf` the model space.  A   *)
(* loop variable that only decreases is followed down to MaxGridSteps      *)
(* below its start and the model space keeps its first 4 * MaxGridSteps    *)
(* entities; a loop whose test can no longer fail goes on cycling through  *)
(* its test and its body.                                                  *)
(***************************************************************************)
MaxGridSteps == 4

GridAdvance(current, incr, start) ==
    IF current + incr < start - MaxGridSteps THEN start - MaxGridSteps
    ELSE current + incr

GridAdd(doc, line, label) ==
    IF Len(doc.entities) >= 4 * MaxGridSteps THEN doc
    ELSE [doc EXCEPT !.entities = @ \o
            <<[type |-> "LINE", layer |-> "GRID", at |-> line],
              [type |-> "TEXT", layer |-> "ANNOTATIONS", at |-> label]>>]

\* current_level = datum
draw_enhanced_grid(left, right, datum, top, x_incr, y_incr) ==
    /\ pc = "idle"
    /\ pc' = "levels"
    /\ call' = [op |-> "draw_enhanced_grid", left |-> left, right |-> right,
                datum |-> datum, top |-> top, x_incr |-> x_incr,
                y_incr |-> y_incr, current_level |-> datum,
                current_ch |-> left]
    /\ dxf' = Some(EmptyDxf)
    /\ UNCHANGED <<raised, params, bridge_type, figure, ax_elevation, ax_plan,
                   files, exit_code, mapped, args, examples>>

\* while current_level <= top: the test holds and the body is entered
GridLevelTest ==
    /\ pc = "levels"
    /\ call.current_level <= call.top
    /\ pc' = "level_body"
    /\ UNCHANGED <<call, dxf, raised, params, bridge_type, figure,
                   ax_elevation, ax_plan, files, exit_code, mapped, args,
                   examples>>

\* the body of the level loop: add the grid line and its label;
\* current_level += y_incr; back to the test
GridLevelIteration ==
    /\ pc = "level_body"
    /\ pc' = "levels"
    /\ dxf' = Some(GridAdd(Get(dxf), call.current_level, call.current_level))
    /\ call' = [call EXCEPT !.current_level =
                    GridAdvance(@, call.y_incr, call.datum)]
    /\ UNCHANGED <<raised, params, bridge_type, figure, ax_elevation,
                   ax_plan, files, exit_code, mapped, args, examples>>

\* the level loop ends; current_ch = left
GridLevelsDone ==
    /\ pc = "levels"
    /\ call.current_level > call.top
    /\ pc' = "chainages"
    /\ UNCHANGED <<call, dxf, raised, params, bridge_type, figure,
                   ax_elevation, ax_plan, files, exit_code, mapped, args,
                   examples>>

\* while current_ch <= right: the test holds and the body is entered
GridChainageTest ==
    /\ pc = "chainages"
    /\ call.current_ch <= call.right
    /\ pc' = "chainage_body"
    /\ UNCHANGED <<call, dxf, raised, params, bridge_type, figure,
                   ax_elevation, ax_plan, files, exit_code, mapped, args,
                   examples>>

\* the body of the chainage loop: add the grid line and its label;
\* current_ch += x_incr; back to the test
GridChainageIteration ==
    /\ pc = "chainage_body"
    /\ pc' = "chainages"
    /\ dxf' = Some(GridAdd(Get(dxf), call.current_ch, call.current_ch))
    /\ call' = [call EXCEPT !.current_ch =
                    GridAdvance(@, call.x_incr, call.left)]
    /\ UNCHANGED <<raised, params, bridge_type, figure, ax_elevation,
                   ax_plan, files, exit_code, mapped, args, examples>>

\* the chainage loop ends and the method returns
GridReturn ==
    /\ pc = "chainages"
    /\ call.current_ch > call.right
    /\ pc' = "done"
    /\ UNCHANGED <<call, dxf, raised, params, bridge_type, figure,
                   ax_elevation, ax_plan, files, exit_code, mapped, args,
                   examples>>

NextGrid ==
    \/ \E left \in {0}, right \in {0, 3}, datum \in {0, 1}, top \in {0, 3},
          x_incr \in {-1, 0, 1, 2}, y_incr \in {-1, 0, 1, 2} :
            draw_enhanced_grid(left, right, datum, top, x_incr, y_incr)
    \/ GridLevelTest
    \/ GridLevelIteration
    \/ GridLevelsDone
    \/ GridChainageTest
    \/ GridChainageIteration
    \/ GridReturn

\* The method runs on once called: a sequential program takes its next step.
SpecGrid == InitIdle /\ [][NextGrid]_vars /\ WF_vars(NextGrid)

\* C24: draw_enhanced_grid always terminates: once called, the level loop
\* and the chainage loop both finish and the method returns, whatever the
\* limits and the increments (zero and negative increments included).
C24_GridTerminates == (pc = "levels") ~> (pc = "done")


\* C25: save_drawing writes a file only after a generate_drawing call on
\* the same generator completed successfully: before any generate_drawing
\* it raises 'No drawing generated' and writes nothing, and after a failed
\* generate_drawing (unsupported typology) it writes nothing either, so a
\* file on disk implies a drawn elevation and a drawn plan.
C25_SaveOnlyAfterSuccessfulGenerate ==
    /\ (call.op = "save_drawing" /\ figure = None) =>
            raised = "ValueError: No drawing generated" /\ files = {}
    /\ files # {} =>
            /\ ax_elevation # None /\ PrimitiveCount(Get(ax_elevation)) > 0
            /\ ax_plan # None /\ PrimitiveCount(Get(ax_plan)) > 0


\* C26: for each of the seven typologies (T_BEAM and SLAB included) the DXF
\* export holds at least one entity on the DECK layer and at least one on
\* the STRUCTURE layer, not only the generic foundations, dimensions and
\* text.
C26_DxfHasDeckAndStructure ==
    \A bt \in BridgeType :
        Exported(bt) =>
            /\ OnLayer(Get(dxf).entities, "DECK") # <<>>
            /\ OnLayer(Get(dxf).entities, "STRUCTURE") # <<>>


(***************************************************************************)
(* Specification SpecSlender: as Spec, for long and low bridges, where the *)
(* thicknesses that scale with the span exceed the height.                 *)
(***************************************************************************)
InitSlender ==
    /\ \E bt \in BridgeType, span \in {I(700)}, width \in WidthValues,
          height \in {I(1), I(8)}, supports \in {6, 13, 29, 30} :
            /\ bridge_type = Some(bt)
            /\ params = Some(BridgeParametersFields(span, width, height, supports,
                                                    I(50), "steel"))
    /\ call = [op |-> "BridgeDrawingGenerator"]
    /\ raised = "none"
    /\ figure = None
    /\ ax_elevation = None
    /\ ax_plan = None
    /\ dxf = None
    /\ files = {}
    /\ pc = "idle"
    /\ exit_code = None
    /\ mapped = NoMapped
    /\ args = None
    /\ examples = <<>>

SpecSlender == InitSlender /\ [][Next]_vars

\* C27: for every typology, every rectangle of the elevation view (deck,
\* slab, piers, towers, abutments, foundations, girder webs and flanges,
\* spandrels, joints) has strictly positive width and strictly positive
\* height.
C27_ElevationRectanglesPositive ==
    \A bt \in BridgeType :
        Generated(bt) =>
            LET r == Get(ax_elevation).patches
            IN  \A k \in 1..Len(r) :
                    "w" \in DOMAIN r[k] => RLt(Zero, r[k].w) /\ RLt(Zero, r[k].h)


\* C28: in a Truss elevation the top chord lies strictly above the bottom
\* chord (truss height = height - deck level - 1 > 0), so every vertical
\* and every diagonal spans from the deck level up to the top chord.
C28_TopChordAboveBottomChord ==
    Generated("truss") =>
        LET l == Get(ax_elevation).lines
            bottom == Named(l, "bottom_chord")
            top == Named(l, "top_chord")
            verticals == Named(l, "vertical")
        IN  /\ \A k \in 1..Len(top) : RLt(bottom[k].ys[1], top[k].ys[1])
            /\ \A k \in 1..Len(verticals) :
                    RLt(verticals[k].ys[1], verticals[k].ys[2])

\* C29: every hanger of a Suspension elevation runs upward: the main-cable
\* height at its x is at least its lower end at deck top (deck level +
\* 0.8), the hangers at the tower positions included.
C29_HangersRunUpward ==
    Generated("suspension") =>
        LET hangers == Named(Get(ax_elevation).lines, "hanger")
        IN  \A k \in 1..Len(hangers) :
                /\ hangers[k].ys[1] = RAdd(RMul(Get(params).height, R(4, 10)), R(8, 10))
                /\ RLe(hangers[k].ys[1], hangers[k].ys[2])

\* C30: every reinforcement segment of a Slab elevation and every
\* edge-marking segment of a Slab plan lies within the deck: both ends
\* satisfy 0 <= x <= span_length, whatever the span.
C30_SlabSegmentsWithinDeck ==
    Generated("slab") =>
        LET p == Get(params)
            Within(line) ==
                \A j \in 1..Len(line.xs) :
                    RLe(Zero, line.xs[j]) /\ RLe(line.xs[j], p.span_length)
            el == Get(ax_elevation).lines
            pl == Named(Get(ax_plan).lines, "edge_marking")
        IN  /\ \A k \in 1..Len(el) : Within(el[k])
            /\ \A k \in 1..Len(pl) : Within(pl[k])

====
